---- MODULE Spec2Model ----
(***************************************************************************)
(* Event ingest (IngestSendEvent), pipeline creation                       *)
(* (CreatePipelineService) and the pipeline run engine (RunPipeline) of    *)
(* the webapp, over the EventRecord / PipelineRun / Queue tables and the   *)
(* worker queue.                                                           *)
(*                                                                         *)
(* Every handler runs inside one database transaction.  A handler is       *)
(* modelled as an operator from the database before the call to a record   *)
(*    [tx, direct, threw, path]                                            *)
(* where tx is the database as the transaction leaves it when it commits   *)
(* and direct is the database when the transaction rolls back: only the    *)
(* writes that did not go through the transaction client survive.          *)
(***************************************************************************)
EXTENDS Integers, Sequences, FiniteSets, Bags, TLC

VARIABLES now, deliverEvents, eventRecords, pipelineRuns, externalAccounts,
          jobs, sends, last, calls,
          taskEvents, taskEventSeq, batch, batchSince, publishTasks, spanCalls,
          flushing, submitted, flushes, subscriptions, subscriberCount

(* calls holds the send calls that are between their findUnique and their  *)
(* write, one per concurrent caller.                                       *)
raceVars == <<calls>>

(* The span repository: the TaskEvent table and the number of ids it has   *)
(* given out, the flush scheduler's batch and the time of its oldest item, *)
(* the runs of #publishToRedis that are under way, and the number of       *)
(* repository calls made.  flushing is the batch the scheduler's callback  *)
(* is running on, <<>> when it is not running.  submitted and flushes are  *)
(* the record of a scheduler that is driven on its own (SpecScheduler):    *)
(* the items AddToBatch gave it, with the time of each, and the batches    *)
(* FlushStart handed to the callback.  subscriptions are the connections   *)
(* made by subscribeToTrace.                                               *)
schedulerVars == <<flushing, submitted, flushes>>

brokerVars == <<subscriptions, subscriberCount>>

spanVars == <<taskEvents, taskEventSeq, batch, batchSince, publishTasks, spanCalls,
              flushing, submitted, flushes, subscriptions, subscriberCount>>

pipelineVars == <<deliverEvents, eventRecords, pipelineRuns, externalAccounts,
                  jobs, sends, calls>>

vars == <<now, deliverEvents, eventRecords, pipelineRuns, externalAccounts,
          jobs, sends, last, calls,
          taskEvents, taskEventSeq, batch, batchSince, publishTasks, spanCalls,
          flushing, submitted, flushes, subscriptions, subscriberCount>>

(***************************************************************************)
(* Bounds of the model.                                                    *)
(***************************************************************************)
MaxNow == 2
MaxSends == 2
MaxQueueSends == 1
MaxRuns == 1
MaxEvents == 2
MaxSpanCalls == 2
MaxSpanNow == 1
MaxSubscriptions == 2
MaxSubmitted == 5
MaxRaceEvents == 3
MaxResendRuns == 2
MaxDispatches == 2

(***************************************************************************)
(* Program constants and the encodings of null / undefined.                *)
(***************************************************************************)
EVENT_UPDATE_THRESHOLD_WINDOW_IN_MSECS == 5 * 1000
NoTime == -1
NullIndex == -1
NoId == 0
Undef == "undefined"
NullRef == "null"
Absent == "<absent>"

(***************************************************************************)
(* JSON values: an object with the one key foo (possibly absent), or       *)
(* undefined.                                                              *)
(***************************************************************************)
Obj(v) == [kind |-> "object", foo |-> v]
UndefinedJson == [kind |-> "undefined", foo |-> Absent]
EmptyObject == Obj(Absent)
OrElse(v, d) == IF v.kind = "undefined" THEN d ELSE v

(***************************************************************************)
(* The authenticated environment of the caller.                            *)
(***************************************************************************)
Environment == [id |-> "env1", projectId |-> "proj1", organizationId |-> "org1"]

(***************************************************************************)
(* Rows of Queue, QueuePipelineStep, EventDispatcher and                   *)
(* EventDispatcherPipelineStep.  A step config is a filter object whose    *)
(* key foo carries a matcher; a matcher that is not an array is rejected   *)
(* by EventFilterSchema.                                                   *)
(***************************************************************************)
ArrayMatcher(vals) == [kind |-> "array", vals |-> vals]
StringMatcher(v) == [kind |-> "string", vals |-> <<v>>]
NoMatcher == [kind |-> "none", vals |-> <<>>]
FilterConfig(m) == [kind |-> "object", foo |-> m]
NullConfig == [kind |-> "null", foo |-> NoMatcher]

Queues ==
  { [id |-> "q0", projectId |-> "proj1", slug |-> "slug0"],
    [id |-> "q1", projectId |-> "proj1", slug |-> "slug1"],
    [id |-> "q2", projectId |-> "proj1", slug |-> "slug2"] }

QueuePipelineSteps ==
  << [id |-> "sA", key |-> "filter-1", type |-> "FILTER", queueId |-> "q1",
      config |-> FilterConfig(ArrayMatcher(<<"ok">>))],
     [id |-> "sB", key |-> "filter-1", type |-> "FILTER", queueId |-> "q2",
      config |-> FilterConfig(ArrayMatcher(<<"ok", "no">>))],
     [id |-> "sC", key |-> "filter-2", type |-> "FILTER", queueId |-> "q2",
      config |-> FilterConfig(ArrayMatcher(<<"ok">>))] >>

EventDispatchers ==
  { [id |-> "d0"], [id |-> "d1"], [id |-> "d2"], [id |-> "d3"], [id |-> "d4"] }

EventDispatcherPipelineSteps ==
  << [id |-> "tA", key |-> "filter-1", type |-> "FILTER", dispatcherId |-> "d1",
      config |-> FilterConfig(ArrayMatcher(<<"ok">>))],
     [id |-> "tW", key |-> "hook-1", type |-> "WEBHOOK", dispatcherId |-> "d2",
      config |-> FilterConfig(ArrayMatcher(<<"ok">>))],
     [id |-> "tBad", key |-> "filter-1", type |-> "FILTER", dispatcherId |-> "d3",
      config |-> FilterConfig(StringMatcher("ok"))],
     [id |-> "tF1", key |-> "filter-1", type |-> "FILTER", dispatcherId |-> "d4",
      config |-> FilterConfig(ArrayMatcher(<<"ok">>))],
     [id |-> "tF2", key |-> "filter-2", type |-> "FILTER", dispatcherId |-> "d4",
      config |-> FilterConfig(ArrayMatcher(<<"ok", "no">>))] >>

Range(s) == { s[i] : i \in DOMAIN s }

RECURSIVE SeqMap(_, _)
SeqMap(s, field) ==
  IF s = <<>> THEN <<>> ELSE <<Head(s)[field]>> \o SeqMap(Tail(s), field)

QueuePipeline(queueId) ==
  SelectSeq(QueuePipelineSteps, LAMBDA s : s.queueId = queueId)

DispatcherPipeline(dispatcherId) ==
  SelectSeq(EventDispatcherPipelineSteps, LAMBDA s : s.dispatcherId = dispatcherId)

(***************************************************************************)
(* The database and the worker queue.  jobs is a bag: two enqueues of the  *)
(* same payload are two jobs, unless they carry the same jobKey.           *)
(***************************************************************************)
DB == [events |-> eventRecords, runs |-> pipelineRuns,
       accounts |-> externalAccounts, jobs |-> jobs]

BlankJob == [name |-> Undef, type |-> Undef, assetId |-> Undef,
             eventRecordId |-> NoId, id |-> NoId, runAt |-> NoTime,
             jobKey |-> NoId]

WithoutKey(bag, key) ==
  [j \in { k \in DOMAIN bag : k.jobKey # key } |-> bag[j]]

Enqueue(bag, job) ==
  (IF job.jobKey = NoId THEN bag ELSE WithoutKey(bag, job.jobKey))
    (+) SetToBag({job})

JobsNamed(bag, names) ==
  [j \in { k \in DOMAIN bag : k.name \in names } |-> bag[j]]

JobCount(bag, names) == BagCardinality(JobsNamed(bag, names))

(***************************************************************************)
(* Filter evaluation.                                                      *)
(***************************************************************************)
EventFilterSchemaSafeParse(config) ==
  /\ config.kind = "object"
  /\ config.foo.kind \in {"none", "array"}

eventFilterMatches(payload, filter) ==
  \/ filter.foo.kind = "none"
  \/ /\ payload.kind = "object"
     /\ payload.foo # Absent
     /\ \E i \in DOMAIN filter.foo.vals : filter.foo.vals[i] = payload.foo

formatUnknownError(error) == error

(***************************************************************************)
(* A transaction in progress: tx is what the transaction sees and will     *)
(* commit, direct is what is already durable outside of it.                *)
(***************************************************************************)
Begin(db) == [tx |-> db, direct |-> db]

EnqueueJob(S, job, opts) ==
  [tx |-> [S.tx EXCEPT !.jobs = Enqueue(@, job)],
   direct |-> IF opts.tx THEN S.direct
              ELSE [S.direct EXCEPT !.jobs = Enqueue(@, job)]]

Returned(S, path, ret) ==
  [tx |-> S.tx, direct |-> S.direct, threw |-> FALSE, path |-> path, ret |-> ret]

Threw(S, path) ==
  [tx |-> S.direct, direct |-> S.direct, threw |-> TRUE, path |-> path, ret |-> <<>>]

(***************************************************************************)
(* RunPipeline                                                             *)
(***************************************************************************)
NoError == ""
Terminal(run) == run.status \in {"SUCCESS", "FAILURE"}

StepTable(type) ==
  IF type = "DISPATCHER" THEN EventDispatcherPipelineSteps ELSE QueuePipelineSteps

processFilterStep(step, run) ==
  LET config == IF step.config.kind = "null" THEN FilterConfig(NoMatcher)
                ELSE step.config
  IN IF ~EventFilterSchemaSafeParse(config) THEN FALSE
     ELSE eventFilterMatches(run.output, config)

processStepIgnoresMismatch(step, run) ==
  IF step.type = "FILTER"
  THEN NoError
  ELSE "Unsupported pipeline step type: " \o step.type

processStepWebhookReturns(step, run) ==
  IF step.type = "FILTER"
  THEN IF processFilterStep(step, run) THEN NoError
       ELSE "Data does not match filter"
  ELSE IF step.type = "WEBHOOK" THEN NoError
  ELSE "Unsupported pipeline step type: " \o step.type

processStep(step, run) ==
  IF step.type = "FILTER"
  THEN IF processFilterStep(step, run) THEN NoError
       ELSE "Data does not match filter"
  ELSE "Unsupported pipeline step type: " \o step.type

(* The update goes through the service's own client, not through tx: it is *)
(* durable whether or not the transaction commits.                         *)
failRunWithError(S, run, error) ==
  LET upd(db) == [db EXCEPT !.runs[run.id] =
                     [@ EXCEPT !.status = "FAILURE",
                               !.error = formatUnknownError(error)]]
  IN [tx |-> upd(S.tx), direct |-> upd(S.direct)]

HasRemainingSteps(run) == Len(run.steps) < run.nextStepIndex + 1

completeRunEnqueueOptsNoTx == [tx |-> FALSE]

completeRunEnqueueOpts == [tx |-> TRUE]

completeRunNoUniqueIndex(S, run, t) ==
  LET inputEvent == S.tx.events[run.inputEventId]
      outputEvent ==
        [inputEvent EXCEPT
           !.id = Len(S.tx.events) + 1,
           !.eventId = inputEvent.eventId \o <<"pipeline", run.id>>,
           !.payload = OrElse(run.output, EmptyObject),
           !.context = OrElse(inputEvent.context, EmptyObject),
           !.timestamp = t,
           !.shouldProcessDispatcherPipeline =
               IF run.type = "DISPATCHER" THEN FALSE ELSE @,
           !.shouldProcessQueuePipeline = FALSE]
      duplicate ==
        \E i \in DOMAIN S.tx.events :
           \/ /\ S.tx.events[i].eventId = outputEvent.eventId
              /\ S.tx.events[i].environmentId = outputEvent.environmentId
           \/ /\ outputEvent.pipelineOutputRunId # NoId
              /\ S.tx.events[i].pipelineOutputRunId = outputEvent.pipelineOutputRunId
      created == [S EXCEPT !.tx.events = Append(@, outputEvent)]
      succeeded ==
        [created EXCEPT
           !.tx.runs[run.id] = [@ EXCEPT !.status = "SUCCESS",
                                         !.nextStepIndex = NullIndex],
           !.tx.events[outputEvent.id] = [@ EXCEPT !.pipelineOutputRunId = run.id]]
  IN IF run.type = "DISPATCHER"
     THEN IF run.metadata.dispatcherId = Undef THEN Threw(S, "metadata")
          ELSE Returned(
                 EnqueueJob(succeeded,
                            [BlankJob EXCEPT !.name = "events.invokeDispatcher",
                                             !.assetId = run.metadata.dispatcherId,
                                             !.eventRecordId = outputEvent.id],
                            completeRunEnqueueOpts),
                 "completed", <<>>)
     ELSE Returned(
            EnqueueJob(succeeded,
                       [BlankJob EXCEPT !.name = "deliverEvent",
                                        !.eventRecordId = outputEvent.id,
                                        !.runAt = outputEvent.deliverAt,
                                        !.jobKey = outputEvent.id],
                       completeRunEnqueueOpts),
            "completed", <<>>)

completeRun(S, run, t) ==
  LET inputEvent == S.tx.events[run.inputEventId]
      outputEvent ==
        [inputEvent EXCEPT
           !.id = Len(S.tx.events) + 1,
           !.eventId = inputEvent.eventId \o <<"pipeline", run.id>>,
           !.payload = OrElse(run.output, EmptyObject),
           !.context = OrElse(inputEvent.context, EmptyObject),
           !.timestamp = t,
           !.shouldProcessDispatcherPipeline =
               IF run.type = "DISPATCHER" THEN FALSE ELSE @,
           !.shouldProcessQueuePipeline = FALSE]
      duplicate ==
        \E i \in DOMAIN S.tx.events :
           \/ /\ S.tx.events[i].eventId = outputEvent.eventId
              /\ S.tx.events[i].environmentId = outputEvent.environmentId
           \/ /\ outputEvent.pipelineOutputRunId # NoId
              /\ S.tx.events[i].pipelineOutputRunId = outputEvent.pipelineOutputRunId
      created == [S EXCEPT !.tx.events = Append(@, outputEvent)]
      succeeded ==
        [created EXCEPT
           !.tx.runs[run.id] = [@ EXCEPT !.status = "SUCCESS",
                                         !.nextStepIndex = NullIndex],
           !.tx.events[outputEvent.id] = [@ EXCEPT !.pipelineOutputRunId = run.id]]
  IN IF duplicate THEN Threw(S, "duplicateKey")
     ELSE IF run.type = "DISPATCHER"
     THEN IF run.metadata.dispatcherId = Undef THEN Threw(S, "metadata")
          ELSE Returned(
                 EnqueueJob(succeeded,
                            [BlankJob EXCEPT !.name = "events.invokeDispatcher",
                                             !.assetId = run.metadata.dispatcherId,
                                             !.eventRecordId = outputEvent.id],
                            completeRunEnqueueOpts),
                 "completed", <<>>)
     ELSE Returned(
            EnqueueJob(succeeded,
                       [BlankJob EXCEPT !.name = "deliverEvent",
                                        !.eventRecordId = outputEvent.id,
                                        !.runAt = outputEvent.deliverAt,
                                        !.jobKey = outputEvent.id],
                       completeRunEnqueueOpts),
            "completed", <<>>)

runStep(S, run, t) ==
  LET stepId == run.steps[run.nextStepIndex + 1]
      found == { s \in Range(StepTable(run.type)) : s.id = stepId }
  IN
  IF found = {} THEN Threw(S, "stepNotFound")
  ELSE
  LET nextStep == CHOOSE s \in found : TRUE
      error == processStep(nextStep, run)
  IN
  IF error # NoError
  THEN Returned(failRunWithError(S, run, error), "failed", <<>>)
  ELSE IF HasRemainingSteps(run)
  THEN Returned(
         EnqueueJob([S EXCEPT !.tx.runs[run.id] =
                        [@ EXCEPT !.status = "STARTED",
                                  !.nextStepIndex = run.nextStepIndex + 1]],
                    [BlankJob EXCEPT !.name = "runPipeline", !.id = run.id],
                    [tx |-> TRUE]),
         "advanced", <<>>)
  ELSE completeRun(S, run, t)

RunPipelineCallGuardThrows(db, id, t) ==
  LET S == Begin(db) IN
  IF id \notin DOMAIN db.runs THEN Threw(S, "notFound")
  ELSE
  LET run == db.runs[id] IN
  IF run.status = "FAILURE" \/ run.status = "SUCCESS"
  THEN Returned(failRunWithError(S, run, "Run already finished"), "failed", <<>>)
  ELSE IF run.nextStepIndex = NullIndex THEN Returned(S, "nullIndex", <<>>)
  ELSE IF run.nextStepIndex + 1 \notin DOMAIN run.steps THEN Returned(S, "noStep", <<>>)
  ELSE runStep(S, run, t)

RunPipelineCall(db, id, t) ==
  LET S == Begin(db) IN
  IF id \notin DOMAIN db.runs THEN Threw(S, "notFound")
  ELSE
  LET run == db.runs[id] IN
  IF run.status = "FAILURE" \/ run.status = "SUCCESS" THEN Returned(S, "terminal", <<>>)
  ELSE IF run.nextStepIndex = NullIndex THEN Returned(S, "nullIndex", <<>>)
  ELSE IF run.nextStepIndex + 1 \notin DOMAIN run.steps THEN Returned(S, "noStep", <<>>)
  ELSE runStep(S, run, t)

(***************************************************************************)
(* CreatePipelineService                                                   *)
(***************************************************************************)
CreatePipelineCallFindUnique(db, pipelineType, eventRecordId, assetId) ==
  LET S == Begin(db) IN
  IF eventRecordId \notin DOMAIN db.events THEN Threw(S, "eventNotFound")
  ELSE
  LET eventRecord == db.events[eventRecordId]
      isDispatcher == pipelineType = "DISPATCHER"
      assets == IF isDispatcher
                THEN { d.id : d \in { x \in EventDispatchers : x.id = assetId } }
                ELSE { q.id : q \in { x \in Queues : x.id = assetId } }
  IN
  LET pipeline == IF isDispatcher THEN DispatcherPipeline(assetId)
                  ELSE QueuePipeline(assetId)
      pipelineRun ==
        [id |-> Len(db.runs) + 1,
         type |-> pipelineType,
         projectId |-> eventRecord.projectId,
         inputEventId |-> eventRecord.id,
         metadata |-> [dispatcherId |-> IF isDispatcher THEN assetId ELSE Undef,
                       queueId |-> IF isDispatcher THEN Undef ELSE assetId],
         output |-> OrElse(eventRecord.payload, EmptyObject),
         steps |-> SeqMap(pipeline, "id"),
         nextStepIndex |-> 0,
         status |-> "PENDING",
         error |-> NullRef]
  IN Returned(
       EnqueueJob([S EXCEPT !.tx.runs = Append(@, pipelineRun)],
                  [BlankJob EXCEPT !.name = "runPipeline", !.id = pipelineRun.id],
                  [tx |-> TRUE]),
       "created", <<pipelineRun>>)

CreatePipelineCall(db, pipelineType, eventRecordId, assetId) ==
  LET S == Begin(db) IN
  IF eventRecordId \notin DOMAIN db.events THEN Threw(S, "eventNotFound")
  ELSE
  LET eventRecord == db.events[eventRecordId]
      isDispatcher == pipelineType = "DISPATCHER"
      assets == IF isDispatcher
                THEN { d.id : d \in { x \in EventDispatchers : x.id = assetId } }
                ELSE { q.id : q \in { x \in Queues : x.id = assetId } }
  IN
  IF assets = {} THEN Threw(S, "assetNotFound")
  ELSE
  LET pipeline == IF isDispatcher THEN DispatcherPipeline(assetId)
                  ELSE QueuePipeline(assetId)
      pipelineRun ==
        [id |-> Len(db.runs) + 1,
         type |-> pipelineType,
         projectId |-> eventRecord.projectId,
         inputEventId |-> eventRecord.id,
         metadata |-> [dispatcherId |-> IF isDispatcher THEN assetId ELSE Undef,
                       queueId |-> IF isDispatcher THEN Undef ELSE assetId],
         output |-> OrElse(eventRecord.payload, EmptyObject),
         steps |-> SeqMap(pipeline, "id"),
         nextStepIndex |-> 0,
         status |-> "PENDING",
         error |-> NullRef]
  IN Returned(
       EnqueueJob([S EXCEPT !.tx.runs = Append(@, pipelineRun)],
                  [BlankJob EXCEPT !.name = "runPipeline", !.id = pipelineRun.id],
                  [tx |-> TRUE]),
       "created", <<pipelineRun>>)

(***************************************************************************)
(* RunDispatcherPipeline: the steps of a dispatcher's pipeline evaluated   *)
(* on an event record, in one call.  EventMatcher applies the filter       *)
(* evaluator to the event record, here with a filter on its payload.       *)
(***************************************************************************)
EventMatcherMatches(eventRecord, filter) ==
  eventFilterMatches(eventRecord.payload, filter.payload)

RunDispatcherPipelineProcessStep(step, eventRecord) ==
  IF step.type = "FILTER"
  THEN LET config == IF step.config.kind = "null" THEN FilterConfig(NoMatcher)
                     ELSE step.config
       IN IF ~EventFilterSchemaSafeParse(config) THEN FALSE
          ELSE EventMatcherMatches(eventRecord, [payload |-> config])
  ELSE FALSE

(* The for loop over the pipeline: whether every step succeeded, and how   *)
(* many steps were evaluated.                                              *)
RECURSIVE ProcessPipeline(_, _, _)
ProcessPipeline(pipeline, eventRecord, evaluated) ==
  IF pipeline = <<>> THEN [success |-> TRUE, evaluated |-> evaluated]
  ELSE IF ~RunDispatcherPipelineProcessStep(Head(pipeline), eventRecord)
       THEN [success |-> FALSE, evaluated |-> evaluated + 1]
       ELSE ProcessPipeline(Tail(pipeline), eventRecord, evaluated + 1)

RunDispatcherPipelineCallLastStepDecides(db, dispatcherId, eventRecordId) ==
  LET S == Begin(db) IN
  IF { d \in EventDispatchers : d.id = dispatcherId } = {}
  THEN Threw(S, "dispatcherNotFound")
  ELSE IF eventRecordId \notin DOMAIN db.events THEN Threw(S, "eventNotFound")
  ELSE
  LET eventRecord == db.events[eventRecordId]
      pipeline == DispatcherPipeline(dispatcherId)
      r == IF pipeline = <<>> THEN [success |-> TRUE, evaluated |-> 0]
           ELSE [success |-> RunDispatcherPipelineProcessStep(pipeline[Len(pipeline)],
                                                              eventRecord),
                 evaluated |-> Len(pipeline)]
  IN IF ~r.success THEN Returned(S, "filtered", <<r.evaluated>>)
     ELSE Returned(
            EnqueueJob(S, [BlankJob EXCEPT !.name = "events.invokeDispatcher",
                                           !.assetId = dispatcherId,
                                           !.eventRecordId = eventRecord.id],
                       [tx |-> TRUE]),
            "dispatched", <<r.evaluated>>)

RunDispatcherPipelineCall(db, dispatcherId, eventRecordId) ==
  LET S == Begin(db) IN
  IF { d \in EventDispatchers : d.id = dispatcherId } = {}
  THEN Threw(S, "dispatcherNotFound")
  ELSE IF eventRecordId \notin DOMAIN db.events THEN Threw(S, "eventNotFound")
  ELSE
  LET eventRecord == db.events[eventRecordId]
      r == ProcessPipeline(DispatcherPipeline(dispatcherId), eventRecord, 0)
  IN IF ~r.success THEN Returned(S, "filtered", <<r.evaluated>>)
     ELSE Returned(
            EnqueueJob(S, [BlankJob EXCEPT !.name = "events.invokeDispatcher",
                                           !.assetId = dispatcherId,
                                           !.eventRecordId = eventRecord.id],
                       [tx |-> TRUE]),
            "dispatched", <<r.evaluated>>)

(***************************************************************************)
(* IngestSendEvent                                                         *)
(***************************************************************************)
calculateDeliverAt(options, t) ==
  IF options.deliverAt # NoTime THEN options.deliverAt
  ELSE IF options.deliverAfter # 0 THEN t + options.deliverAfter * 1000
  ELSE NoTime

shouldUpdateEventStrict(eventLog, t) ==
  LET thresholdTime == t + EVENT_UPDATE_THRESHOLD_WINDOW_IN_MSECS
  IN eventLog.deliverAt > thresholdTime

shouldUpdateEvent(eventLog, t) ==
  LET thresholdTime == t + EVENT_UPDATE_THRESHOLD_WINDOW_IN_MSECS
  IN eventLog.deliverAt >= thresholdTime

enqueueWorkerEventFallsThrough(S, eventLog, deliver) ==
  LET hasQueuePipeline ==
        /\ eventLog.queueId # NullRef
        /\ Len(QueuePipeline(eventLog.queueId)) # 0
      S1 == IF hasQueuePipeline
            THEN EnqueueJob(S, [BlankJob EXCEPT !.name = "createPipeline",
                                                !.type = "QUEUE",
                                                !.assetId = eventLog.queueId,
                                                !.eventRecordId = eventLog.id],
                            [tx |-> FALSE])
            ELSE S
  IN IF deliver
     THEN EnqueueJob(S1, [BlankJob EXCEPT !.name = "deliverEvent",
                                          !.eventRecordId = eventLog.id,
                                          !.runAt = eventLog.deliverAt,
                                          !.jobKey = eventLog.id],
                     [tx |-> TRUE])
     ELSE S1

(* createPipeline is enqueued without the tx option, deliverEvent with it. *)
enqueueWorkerEvent(S, eventLog, deliver) ==
  LET hasQueuePipeline ==
        /\ eventLog.queueId # NullRef
        /\ Len(QueuePipeline(eventLog.queueId)) # 0
  IN IF hasQueuePipeline
     THEN EnqueueJob(S, [BlankJob EXCEPT !.name = "createPipeline",
                                         !.type = "QUEUE",
                                         !.assetId = eventLog.queueId,
                                         !.eventRecordId = eventLog.id],
                     [tx |-> FALSE])
     ELSE IF deliver
     THEN EnqueueJob(S, [BlankJob EXCEPT !.name = "deliverEvent",
                                         !.eventRecordId = eventLog.id,
                                         !.runAt = eventLog.deliverAt,
                                         !.jobKey = eventLog.id],
                     [tx |-> TRUE])
     ELSE S

createEventNoUniqueIndex(S, event, queueId, environment, deliverAt, externalAccount, deliver, t) ==
  LET eventLog ==
        [id |-> Len(S.tx.events) + 1,
         organizationId |-> environment.organizationId,
         projectId |-> environment.projectId,
         environmentId |-> environment.id,
         eventId |-> <<event.id>>,
         queueId |-> queueId,
         name |-> event.name,
         timestamp |-> IF event.timestamp # NoTime THEN event.timestamp ELSE t,
         payload |-> OrElse(event.payload, EmptyObject),
         payloadType |-> event.payloadType,
         context |-> OrElse(event.context, EmptyObject),
         deliverAt |-> IF deliverAt # NoTime THEN deliverAt ELSE t,
         externalAccountId |-> externalAccount,
         shouldProcessQueuePipeline |-> TRUE,
         shouldProcessDispatcherPipeline |-> TRUE,
         pipelineOutputRunId |-> NoId]
      duplicate ==
        \E i \in DOMAIN S.tx.events :
           /\ S.tx.events[i].eventId = eventLog.eventId
           /\ S.tx.events[i].environmentId = eventLog.environmentId
      created == [S EXCEPT !.tx.events = Append(@, eventLog)]
  IN Returned(enqueueWorkerEvent(created, eventLog, deliver),
              "created", <<eventLog>>)

(* A column the create leaves undefined takes its database default:        *)
(* deliverAt and timestamp the current time, the two shouldProcess flags   *)
(* TRUE, pipelineOutputRunId NULL.  The table is unique on (eventId,       *)
(* environmentId): a create for a pair that is already stored throws.      *)
createEvent(S, event, queueId, environment, deliverAt, externalAccount, deliver, t) ==
  LET eventLog ==
        [id |-> Len(S.tx.events) + 1,
         organizationId |-> environment.organizationId,
         projectId |-> environment.projectId,
         environmentId |-> environment.id,
         eventId |-> <<event.id>>,
         queueId |-> queueId,
         name |-> event.name,
         timestamp |-> IF event.timestamp # NoTime THEN event.timestamp ELSE t,
         payload |-> OrElse(event.payload, EmptyObject),
         payloadType |-> event.payloadType,
         context |-> OrElse(event.context, EmptyObject),
         deliverAt |-> IF deliverAt # NoTime THEN deliverAt ELSE t,
         externalAccountId |-> externalAccount,
         shouldProcessQueuePipeline |-> TRUE,
         shouldProcessDispatcherPipeline |-> TRUE,
         pipelineOutputRunId |-> NoId]
      duplicate ==
        \E i \in DOMAIN S.tx.events :
           /\ S.tx.events[i].eventId = eventLog.eventId
           /\ S.tx.events[i].environmentId = eventLog.environmentId
      created == [S EXCEPT !.tx.events = Append(@, eventLog)]
  IN IF duplicate THEN Threw(S, "duplicateKey")
     ELSE Returned(enqueueWorkerEvent(created, eventLog, deliver),
                   "created", <<eventLog>>)

updateEventKeepsDeliverAt(S, existingEventLog, reqEvent, queueId, deliverAt, deliver, t) ==
  IF ~shouldUpdateEvent(existingEventLog, t)
  THEN Returned(S, "unchanged", <<existingEventLog>>)
  ELSE
  LET updatedEventLog ==
        [S.tx.events[existingEventLog.id] EXCEPT
           !.payload = OrElse(reqEvent.payload, existingEventLog.payload),
           !.payloadType = IF reqEvent.payloadType # Undef
                           THEN reqEvent.payloadType ELSE @,
           !.context = OrElse(reqEvent.context, existingEventLog.context),
           !.queueId = queueId,
           !.deliverAt = IF deliverAt # NoTime THEN deliverAt ELSE @]
      updated == [S EXCEPT !.tx.events[existingEventLog.id] = updatedEventLog]
  IN Returned(enqueueWorkerEvent(updated, updatedEventLog, deliver),
              "updated", <<updatedEventLog>>)

(* A field the update passes as undefined (payloadType of a request that   *)
(* carries none) is left as it is.  existingEventLog is the row as the     *)
(* call read it; the update is applied to the row as it is stored.         *)
updateEvent(S, existingEventLog, reqEvent, queueId, deliverAt, deliver, t) ==
  IF ~shouldUpdateEvent(existingEventLog, t)
  THEN Returned(S, "unchanged", <<existingEventLog>>)
  ELSE
  LET updatedEventLog ==
        [S.tx.events[existingEventLog.id] EXCEPT
           !.payload = OrElse(reqEvent.payload, existingEventLog.payload),
           !.payloadType = IF reqEvent.payloadType # Undef
                           THEN reqEvent.payloadType ELSE @,
           !.context = OrElse(reqEvent.context, existingEventLog.context),
           !.queueId = queueId,
           !.deliverAt = IF deliverAt # NoTime THEN deliverAt ELSE t]
      updated == [S EXCEPT !.tx.events[existingEventLog.id] = updatedEventLog]
  IN Returned(enqueueWorkerEvent(updated, updatedEventLog, deliver),
              "updated", <<updatedEventLog>>)

(* findUnique on (eventId, environmentId): the row, if there is one.       *)
IngestSendEventFind(db, environment, event) ==
  LET existing == { i \in DOMAIN db.events :
                      /\ db.events[i].eventId = <<event.id>>
                      /\ db.events[i].environmentId = environment.id }
  IN IF existing = {} THEN <<>> ELSE <<db.events[CHOOSE i \in existing : TRUE]>>

IngestSendEventWriteFindUnique(db, found, environment, event, options, deliver, deliverAt, t) ==
  LET S0 == Begin(db)
      externalAccount ==
        IF options.accountId # Undef THEN options.accountId ELSE Undef
      S1 == IF options.accountId # Undef
            THEN [S0 EXCEPT !.tx.accounts =
                     @ \cup {[environmentId |-> environment.id,
                              organizationId |-> environment.organizationId,
                              identifier |-> options.accountId]}]
            ELSE S0
      queues == { q \in Queues : /\ q.projectId = environment.projectId
                                 /\ q.slug = options.queueId }
  IN
  LET queueId == IF options.queueId # Undef /\ queues # {}
                 THEN (CHOOSE q \in queues : TRUE).id ELSE NullRef
  IN IF found # <<>>
     THEN updateEvent(S1, found[1], event, queueId, deliverAt, deliver, t)
     ELSE createEvent(S1, event, queueId, environment, deliverAt,
                      externalAccount, deliver, t)

(* The transaction from the externalAccount upsert to the create or        *)
(* update, given what findUnique returned.                                 *)
IngestSendEventWrite(db, found, environment, event, options, deliver, deliverAt, t) ==
  LET S0 == Begin(db)
      externalAccount ==
        IF options.accountId # Undef THEN options.accountId ELSE Undef
      S1 == IF options.accountId # Undef
            THEN [S0 EXCEPT !.tx.accounts =
                     @ \cup {[environmentId |-> environment.id,
                              organizationId |-> environment.organizationId,
                              identifier |-> options.accountId]}]
            ELSE S0
      queues == { q \in Queues : /\ q.projectId = environment.projectId
                                 /\ q.slug = options.queueId }
  IN
  IF options.queueId # Undef /\ queues = {} THEN Threw(S1, "queueNotFound")
  ELSE
  LET queueId == IF options.queueId # Undef
                 THEN (CHOOSE q \in queues : TRUE).id ELSE NullRef
  IN IF found # <<>>
     THEN updateEvent(S1, found[1], event, queueId, deliverAt, deliver, t)
     ELSE createEvent(S1, event, queueId, environment, deliverAt,
                      externalAccount, deliver, t)

IngestSendEventCall(db, environment, event, options, deliver, t) ==
  IngestSendEventWrite(db, IngestSendEventFind(db, environment, event),
                       environment, event, options, deliver,
                       calculateDeliverAt(options, t), t)

(***************************************************************************)
(* Inputs of send, createPipeline and runPipeline.                         *)
(***************************************************************************)
RawEvent(id, payload, context, payloadType) ==
  [id |-> id, name |-> "my.event", payload |-> payload, context |-> context,
   payloadType |-> payloadType, timestamp |-> NoTime]

RawEvents ==
  { RawEvent("e1", Obj("ok"), UndefinedJson, Undef),
    RawEvent("e1", Obj("no"), UndefinedJson, Undef),
    RawEvent("e1", UndefinedJson, Obj("ctx"), "REQUEST"),
    RawEvent("e2", Obj("ok"), UndefinedJson, Undef) }

SendOptions(deliverAt, deliverAfter, queueId, accountId) ==
  [deliverAt |-> deliverAt, deliverAfter |-> deliverAfter,
   queueId |-> queueId, accountId |-> accountId]

SendEventOptions ==
  { SendOptions(NoTime, 0, Undef, Undef),
    SendOptions(NoTime, 5, Undef, Undef),
    SendOptions(5001, 0, Undef, "acct1"),
    SendOptions(NoTime, 5, "slug1", Undef),
    SendOptions(NoTime, 0, "slug2", Undef),
    SendOptions(NoTime, 5, "slug0", "acct1"),
    SendOptions(NoTime, 0, "nope", "acct1") }

Senders == {1, 2}

NoCall == [op |-> "init", path |-> "", threw |-> FALSE, abort |-> FALSE,
           fromJob |-> FALSE, ret |-> <<>>]

InitDatabase ==
  /\ now = 0
  /\ eventRecords = <<>>
  /\ pipelineRuns = <<>>
  /\ externalAccounts = {}
  /\ jobs = EmptyBag
  /\ sends = 0
  /\ last = NoCall
  /\ calls = [p \in Senders |-> <<>>]
  /\ taskEvents = <<>>
  /\ taskEventSeq = 0
  /\ batch = <<>>
  /\ batchSince = NoTime
  /\ publishTasks = <<>>
  /\ spanCalls = 0
  /\ flushing = <<>>
  /\ submitted = <<>>
  /\ flushes = <<>>
  /\ subscriptions = <<>>
  /\ subscriberCount = 0

Init == InitDatabase /\ deliverEvents = TRUE

(***************************************************************************)
(* A call commits unless it threw or the transaction was aborted (timeout, *)
(* connection loss); the job that triggered a call is removed from the     *)
(* worker queue when the call returns, and stays for a retry otherwise.    *)
(***************************************************************************)
Settle(r, abort, job) ==
  LET committed == ~r.threw /\ ~abort
      db == IF committed THEN r.tx ELSE r.direct
  IN [db EXCEPT !.jobs = IF committed /\ BagIn(job, jobs)
                         THEN @ (-) SetToBag({job}) ELSE @]

Outcome(r, abort) ==
  IF abort /\ ~r.threw THEN [path |-> "aborted", ret |-> <<>>]
  ELSE [path |-> r.path, ret |-> r.ret]

Install(db) ==
  /\ Len(db.events) <= MaxEvents
  /\ Len(db.runs) <= MaxRuns
  /\ eventRecords' = db.events
  /\ pipelineRuns' = db.runs
  /\ externalAccounts' = db.accounts
  /\ jobs' = db.jobs

Tick ==
  /\ now < MaxNow
  /\ now' = now + 1
  /\ last' = [NoCall EXCEPT !.op = "tick"]
  /\ UNCHANGED <<deliverEvents, eventRecords, pipelineRuns, externalAccounts,
                 jobs, sends>>
  /\ UNCHANGED raceVars
  /\ UNCHANGED spanVars

Send(event, options, abort) ==
  /\ sends < MaxSends
  /\ sends' = sends + 1
  /\ LET r == IngestSendEventCall(DB, Environment, event, options, deliverEvents, now)
     IN /\ Install(Settle(r, abort, BlankJob))
        /\ last' = [op |-> "send", path |-> Outcome(r, abort).path,
                    threw |-> r.threw \/ abort, abort |-> abort,
                    fromJob |-> FALSE, ret |-> Outcome(r, abort).ret,
                    event |-> event, options |-> options]
  /\ UNCHANGED <<now, deliverEvents>>
  /\ UNCHANGED raceVars
  /\ UNCHANGED spanVars

CreatePipeline(pipelineType, eventRecordId, assetId, abort) ==
  LET job == [BlankJob EXCEPT !.name = "createPipeline", !.type = pipelineType,
                              !.assetId = assetId, !.eventRecordId = eventRecordId]
      r == CreatePipelineCall(DB, pipelineType, eventRecordId, assetId)
  IN /\ Install(Settle(r, abort, job))
     /\ last' = [op |-> "createPipeline", path |-> Outcome(r, abort).path,
                 threw |-> r.threw \/ abort, abort |-> abort,
                 fromJob |-> BagIn(job, jobs), ret |-> Outcome(r, abort).ret]
     /\ UNCHANGED <<now, deliverEvents, sends>>
     /\ UNCHANGED raceVars
     /\ UNCHANGED spanVars

RunPipeline(id, abort) ==
  LET job == [BlankJob EXCEPT !.name = "runPipeline", !.id = id]
      r == RunPipelineCall(DB, id, now)
  IN /\ Install(Settle(r, abort, job))
     /\ last' = [op |-> "runPipeline", path |-> Outcome(r, abort).path,
                 threw |-> r.threw \/ abort, abort |-> abort,
                 fromJob |-> BagIn(job, jobs), ret |-> Outcome(r, abort).ret,
                 id |-> id]
     /\ UNCHANGED <<now, deliverEvents, sends>>
     /\ UNCHANGED raceVars
     /\ UNCHANGED spanVars

PipelineAssets ==
  ({"QUEUE"} \X ({ q.id : q \in Queues } \cup {"nope"}))
    \cup ({"DISPATCHER"} \X { d.id : d \in EventDispatchers })

QueueEvents == { e \in RawEvents : e.id = "e1" /\ e.payload.kind = "object" }
QueueOptions == { o \in SendEventOptions :
                    o.accountId = Undef /\ o.deliverAt = NoTime
                    /\ (o.queueId = Undef => o.deliverAfter # 0) }

NextSend ==
  /\ sends < MaxQueueSends
  /\ \E event \in QueueEvents, options \in QueueOptions : Send(event, options, FALSE)

NextCreatePipeline ==
  \E asset \in PipelineAssets, eventRecordId \in 1..(Len(eventRecords) + 1),
     abort \in BOOLEAN :
     CreatePipeline(asset[1], eventRecordId, asset[2], abort)

NextRunPipeline ==
  \E id \in 1..(Len(pipelineRuns) + 1), abort \in BOOLEAN : RunPipeline(id, abort)

Next == NextSend \/ NextCreatePipeline \/ NextRunPipeline

Spec == Init /\ [][Next]_vars

(***************************************************************************)
(* Events are sent and dispatcher pipelines are run on them.  The number   *)
(* of events.invokeDispatcher jobs in the queue is bounded.                *)
(***************************************************************************)
RunDispatcherPipeline(dispatcherId, eventRecordId, abort) ==
  /\ JobCount(jobs, {"events.invokeDispatcher"}) < MaxDispatches
  /\ LET r == RunDispatcherPipelineCall(DB, dispatcherId, eventRecordId)
     IN /\ Install(Settle(r, abort, BlankJob))
        /\ last' = [op |-> "runDispatcherPipeline", path |-> Outcome(r, abort).path,
                    threw |-> r.threw \/ abort, abort |-> abort,
                    fromJob |-> FALSE, ret |-> Outcome(r, abort).ret,
                    dispatcherId |-> dispatcherId, eventRecordId |-> eventRecordId]
  /\ UNCHANGED <<now, deliverEvents, sends>>
  /\ UNCHANGED raceVars
  /\ UNCHANGED spanVars

NextRunDispatcherPipeline ==
  \E dispatcherId \in { d.id : d \in EventDispatchers } \cup {"nope"},
     eventRecordId \in 1..(Len(eventRecords) + 1), abort \in BOOLEAN :
     RunDispatcherPipeline(dispatcherId, eventRecordId, abort)

NextDispatch == NextSend \/ NextRunDispatcherPipeline

SpecDispatch == Init /\ [][NextDispatch]_vars

(***************************************************************************)
(* The ingest path on its own, with every input of send and the clock.     *)
(***************************************************************************)
NextIngestSend ==
  \E event \in RawEvents, options \in SendEventOptions, abort \in BOOLEAN :
     Send(event, options, abort)

NextIngest == Tick \/ NextIngestSend

InitIngest == InitDatabase /\ deliverEvents \in BOOLEAN

SpecIngest == InitIngest /\ [][NextIngest]_vars

(***************************************************************************)
(* Concurrent sends.  Each caller runs IngestSendEvent.call in its own     *)
(* transaction: SendFind is the call up to the result of findUnique,       *)
(* SendWrite the rest of the transaction and its commit.  A create that    *)
(* meets a row another transaction has committed in between fails on the   *)
(* unique index.                                                           *)
(***************************************************************************)
RaceEvents == { e \in RawEvents : e.payload.kind = "object" }
RaceOptions == { o \in SendEventOptions : o.deliverAt = NoTime /\ o.queueId # "slug2" }

SendFind(p, event, options) ==
  /\ sends < MaxSends
  /\ calls[p] = <<>>
  /\ sends' = sends + 1
  /\ calls' = [calls EXCEPT ![p] =
                 <<[event |-> event, options |-> options,
                    found |-> IngestSendEventFind(DB, Environment, event),
                    deliverAt |-> calculateDeliverAt(options, now)]>>]
  /\ last' = [NoCall EXCEPT !.op = "findUnique"]
  /\ UNCHANGED <<now, deliverEvents, eventRecords, pipelineRuns,
                 externalAccounts, jobs>>
  /\ UNCHANGED spanVars

SendWrite(p, abort) ==
  /\ calls[p] # <<>>
  /\ LET c == calls[p][1]
         r == IngestSendEventWrite(DB, c.found, Environment, c.event, c.options,
                                   deliverEvents, c.deliverAt, now)
     IN /\ Install(Settle(r, abort, BlankJob))
        /\ last' = [op |-> "send", path |-> Outcome(r, abort).path,
                    threw |-> r.threw \/ abort, abort |-> abort,
                    fromJob |-> FALSE, ret |-> Outcome(r, abort).ret,
                    event |-> c.event, options |-> c.options, caller |-> p]
  /\ calls' = [calls EXCEPT ![p] = <<>>]
  /\ UNCHANGED <<now, deliverEvents, sends>>
  /\ UNCHANGED spanVars

NextSendFind ==
  \E p \in Senders, event \in RaceEvents, options \in RaceOptions :
     SendFind(p, event, options)

NextSendWrite == \E p \in Senders, abort \in BOOLEAN : SendWrite(p, abort)

NextRace == NextSendFind \/ NextSendWrite

SpecRace == Init /\ [][NextRace]_vars

(***************************************************************************)
(* EventRepository: span rows (TaskEvent), the flush scheduler and the     *)
(* publisher.  Times of day are in milliseconds, startTime and duration in *)
(* nanoseconds.                                                            *)
(***************************************************************************)
batchSize == 2
flushInterval == 1
retentionInDays == 0

CreatableEvent(traceId, spanId, parentId, isPartial, startTime, duration, events) ==
  [id |-> NoId, createdAt |-> NoTime, traceId |-> traceId, spanId |-> spanId,
   parentId |-> parentId, isPartial |-> isPartial, isCancelled |-> FALSE,
   isError |-> FALSE, status |-> "OK", startTime |-> startTime,
   duration |-> duration, events |-> events, output |-> Undef,
   outputType |-> Undef]

LogSpanEvent == [name |-> "log", time |-> 0, properties |-> [message |-> "started"]]

PartialX == CreatableEvent("t1", "X", Undef, TRUE, 0, 0, <<>>)
CompleteX == CreatableEvent("t1", "X", Undef, FALSE, 0, 1000, <<>>)
PartialY == CreatableEvent("t1", "Y", "X", TRUE, 100, 0, <<LogSpanEvent>>)
PartialX2 == CreatableEvent("t2", "X", Undef, TRUE, 0, 0, <<>>)

InsertEvents == {PartialX, CompleteX}
InsertImmediateEvents == {PartialX, PartialY}
InsertManyEvents == { <<PartialX, CompleteX>>, <<PartialX2, PartialY, PartialX2>> }
InsertManyImmediateEvents ==
  { <<PartialX2, CompleteX, PartialY>>, <<PartialY, PartialY>>, <<>> }

Repo == [rows |-> taskEvents, seq |-> taskEventSeq, batch |-> batch,
         batchSince |-> batchSince, tasks |-> publishTasks,
         flushing |-> flushing]

Ok(R, ret) == [repo |-> R, threw |-> FALSE, ret |-> ret]
Failed(R) == [repo |-> R, threw |-> TRUE, ret |-> <<>>]

(* taskEvent.create / createMany: the table gives the row its id, and its  *)
(* createdAt when the data carries none.                                   *)
create(R, event, t) ==
  [R EXCEPT !.rows = Append(@, [event EXCEPT !.id = R.seq + 1,
                                             !.createdAt = IF @ = NoTime THEN t ELSE @]),
            !.seq = @ + 1]

RECURSIVE createMany(_, _, _)
createMany(R, events, t) ==
  IF events = <<>> THEN R ELSE createMany(create(R, Head(events), t), Tail(events), t)

addToBatch(R, items, t) ==
  [R EXCEPT !.batch = @ \o items,
            !.batchSince = IF R.batch = <<>> /\ items # <<>> THEN t ELSE @]

NanosecondsPerMillisecond == 1000000

calculateDurationFromStart(startTime, endTime, t) ==
  (IF endTime = NoTime THEN t ELSE endTime) * NanosecondsPerMillisecond - startTime

excludePartialEventsKeepsAll(events) == events

excludePartialEventsWithCorrespondingFullEvent(events) ==
  LET partialEvents == SelectSeq(events, LAMBDA event : event.isPartial)
      fullEvents == SelectSeq(events, LAMBDA event : ~event.isPartial)
  IN fullEvents \o
       SelectSeq(partialEvents,
                 LAMBDA partialEvent :
                   ~\E i \in DOMAIN fullEvents :
                       fullEvents[i].spanId = partialEvent.spanId)

Channel(event) == "events:" \o event.traceId \o ":" \o event.spanId

RECURSIVE uniqueTraceSpans(_, _)
uniqueTraceSpans(events, ids) ==
  IF events = <<>> THEN ids
  ELSE uniqueTraceSpans(Tail(events),
                        IF Channel(Head(events)) \in Range(ids) THEN ids
                        ELSE Append(ids, Channel(Head(events))))

(* #publishToRedis is called without await in insertImmediate and in       *)
(* #flushBatch: the call starts a run that publishes the ids one by one    *)
(* while the caller goes on, and nobody receives its rejection.            *)
publishToRedisAwaited == FALSE

publishToRedisPerEvent(R, events) ==
  IF Len(events) = 0 THEN R
  ELSE [R EXCEPT !.tasks = Append(@, [origin |-> Undef,
                                      awaited |-> publishToRedisAwaited,
                                      ids |-> [i \in DOMAIN events |->
                                                 Channel(events[i])]])]

publishToRedis(R, events) ==
  IF Len(events) = 0 THEN R
  ELSE [R EXCEPT !.tasks = Append(@, [origin |-> Undef,
                                      awaited |-> publishToRedisAwaited,
                                      ids |-> uniqueTraceSpans(events, <<>>)])]

insert(R, event, t) == Ok(addToBatch(R, <<event>>, t), <<>>)

insertImmediate(R, event, storageOk, t) ==
  IF ~storageOk THEN Failed(R)
  ELSE Ok(publishToRedis(create(R, event, t), <<event>>), <<>>)

insertMany(R, events, t) == Ok(addToBatch(R, events, t), <<>>)

flushBatch(R, events, storageOk, t) ==
  LET kept == excludePartialEventsWithCorrespondingFullEvent(events)
  IN IF ~storageOk THEN Failed(R)
     ELSE Ok(publishToRedis(createMany(R, kept, t), kept), <<>>)

insertManyImmediate(R, events, storageOk, t) == flushBatch(R, events, storageOk, t)

QueryOptions(traceId, spanId) == [traceId |-> traceId, spanId |-> spanId]

Where(queryOptions, event) ==
  /\ queryOptions.traceId # Undef => event.traceId = queryOptions.traceId
  /\ queryOptions.spanId # Undef => event.spanId = queryOptions.spanId

queryIncompleteEvents(rows, queryOptions) ==
  LET found == SelectSeq(rows, LAMBDA event : Where(queryOptions, event))
      filteredTaskEvents ==
        SelectSeq(found,
                  LAMBDA event :
                    /\ event.isPartial
                    /\ ~event.isCancelled
                    /\ ~\E i \in DOMAIN found :
                          /\ found[i].spanId = event.spanId
                          /\ ~found[i].isPartial
                          /\ ~found[i].isCancelled)
  IN SelectSeq(rows, LAMBDA event :
                 \E i \in DOMAIN filteredTaskEvents :
                    filteredTaskEvents[i].spanId = event.spanId)

UpdateEventOptions(isError, endTime, output, outputType) ==
  [isError |-> isError, endTime |-> endTime, output |-> output,
   outputType |-> outputType]

(* first is the position, in storage order, of the row the query returns   *)
(* first: findMany has no orderBy.                                         *)
completeEvent(R, spanId, options, first, t) ==
  LET events == queryIncompleteEvents(R.rows, QueryOptions(Undef, spanId))
  IN IF Len(events) = 0 THEN Ok(R, <<>>)
     ELSE
     LET event == events[first]
     IN insert(R,
               [event EXCEPT
                  !.id = NoId,
                  !.isPartial = FALSE,
                  !.isError = options.isError,
                  !.isCancelled = FALSE,
                  !.status = IF options.isError THEN "ERROR" ELSE "OK",
                  !.duration = calculateDurationFromStart(event.startTime,
                                                          options.endTime, t),
                  !.output = options.output,
                  !.outputType =
                     IF options.outputType \in {"application/store", "text/plain"}
                     THEN options.outputType ELSE "application/json"],
               t)

cancelEventAppendsCancellation(R, event, cancelledAt, reason, storageOk, t) ==
  IF ~event.isPartial THEN Ok(R, <<>>)
  ELSE insertImmediate(
         R,
         [event EXCEPT
            !.id = NoId,
            !.isPartial = FALSE,
            !.isError = FALSE,
            !.isCancelled = TRUE,
            !.status = "ERROR",
            !.events = @ \o <<[name |-> "cancellation", time |-> cancelledAt,
                               properties |-> [reason |-> reason]]>>,
            !.duration = calculateDurationFromStart(event.startTime, cancelledAt, t)],
         storageOk, t)

cancelEvent(R, event, cancelledAt, reason, storageOk, t) ==
  IF ~event.isPartial THEN Ok(R, <<>>)
  ELSE insertImmediate(
         R,
         [event EXCEPT
            !.id = NoId,
            !.isPartial = FALSE,
            !.isError = FALSE,
            !.isCancelled = TRUE,
            !.status = "ERROR",
            !.events = <<[name |-> "cancellation", time |-> cancelledAt,
                          properties |-> [reason |-> reason]]>> \o @,
            !.duration = calculateDurationFromStart(event.startTime, cancelledAt, t)],
         storageOk, t)

crashEvent(R, event, crashedAt, exception, storageOk, t) ==
  IF ~event.isPartial THEN Ok(R, <<>>)
  ELSE insertImmediate(
         R,
         [event EXCEPT
            !.id = NoId,
            !.isPartial = FALSE,
            !.isError = TRUE,
            !.isCancelled = FALSE,
            !.status = "ERROR",
            !.events = <<[name |-> "exception", time |-> crashedAt,
                          properties |-> [exception |-> exception]]>> \o @,
            !.duration = calculateDurationFromStart(event.startTime, crashedAt, t)],
         storageOk, t)

truncateEventsAll(R, t) == Ok([R EXCEPT !.rows = <<>>], <<>>)

truncateEvents(R, t) ==
  Ok([R EXCEPT !.rows =
        SelectSeq(@, LAMBDA event :
                       ~(event.createdAt < t - retentionInDays * 24 * 60 * 60 * 1000))],
     <<>>)

(***************************************************************************)
(* Calls of the repository.  A call leaves the repository as the handler   *)
(* left it; a run of the publisher that the call started is tagged with    *)
(* the name of the call.                                                   *)
(***************************************************************************)
InstallRepo(R, op) ==
  /\ taskEvents' = R.rows
  /\ taskEventSeq' = R.seq
  /\ batch' = R.batch
  /\ batchSince' = R.batchSince
  /\ publishTasks' = [i \in DOMAIN R.tasks |->
                        IF i > Len(publishTasks)
                        THEN [R.tasks[i] EXCEPT !.origin = op] ELSE R.tasks[i]]
  /\ flushing' = R.flushing
  /\ UNCHANGED brokerVars

SpanCall(op, r, args) ==
  /\ spanCalls < MaxSpanCalls
  /\ spanCalls' = spanCalls + 1
  /\ InstallRepo(r.repo, op)
  /\ UNCHANGED <<submitted, flushes>>
  /\ last' = [op |-> op, threw |-> r.threw, ret |-> r.ret, args |-> args]
  /\ UNCHANGED now
  /\ UNCHANGED pipelineVars

(* A query changes nothing. *)
SpanRead(op, ret, args) ==
  /\ last' = [op |-> op, threw |-> FALSE, ret |-> ret, args |-> args]
  /\ UNCHANGED now
  /\ UNCHANGED spanVars
  /\ UNCHANGED pipelineVars

Insert(event) ==
  SpanCall("insert", insert(Repo, event, now), <<event>>)

InsertImmediate(event, storageOk) ==
  SpanCall("insertImmediate", insertImmediate(Repo, event, storageOk, now), <<event>>)

InsertMany(events) ==
  SpanCall("insertMany", insertMany(Repo, events, now), events)

InsertManyImmediate(events, storageOk) ==
  SpanCall("insertManyImmediate", insertManyImmediate(Repo, events, storageOk, now),
           events)

CompleteEvent(spanId, options, first) ==
  /\ first \in DOMAIN queryIncompleteEvents(taskEvents, QueryOptions(Undef, spanId))
       \/ (first = 1 /\ queryIncompleteEvents(taskEvents, QueryOptions(Undef, spanId)) = <<>>)
  /\ SpanCall("completeEvent", completeEvent(Repo, spanId, options, first, now),
              <<spanId, options>>)

CancelEvent(event, cancelledAt, reason, storageOk) ==
  SpanCall("cancelEvent", cancelEvent(Repo, event, cancelledAt, reason, storageOk, now),
           <<event, cancelledAt, reason>>)

CrashEvent(event, crashedAt, exception, storageOk) ==
  SpanCall("crashEvent", crashEvent(Repo, event, crashedAt, exception, storageOk, now),
           <<event, crashedAt, exception>>)

QueryIncompleteEvents(queryOptions) ==
  SpanRead("queryIncompleteEvents", queryIncompleteEvents(taskEvents, queryOptions),
           <<queryOptions>>)

(* Truncation only removes rows: it is not counted among the calls. *)
TruncateEvents ==
  /\ InstallRepo(truncateEvents(Repo, now).repo, "truncateEvents")
  /\ UNCHANGED <<submitted, flushes>>
  /\ last' = [op |-> "truncateEvents", threw |-> FALSE, ret |-> <<>>, args |-> <<>>]
  /\ UNCHANGED <<now, spanCalls>>
  /\ UNCHANGED pipelineVars

(* The scheduler hands a batch to #flushBatch when the items it holds have *)
(* reached batchSize or the oldest has waited flushInterval, and not while *)
(* the callback is still running on the batch before.  A batch is the      *)
(* first batchSize items, or all of them when they are fewer; the items    *)
(* after them stay for the next batch.  A failure of the callback is       *)
(* logged and the batch is dropped.                                        *)
FlushDue ==
  \/ Len(batch) >= batchSize
  \/ batch # <<>> /\ now >= batchSince + flushInterval

nextBatchWholeBuffer(items) == items

nextBatch(items) ==
  SubSeq(items, 1, IF Len(items) < batchSize THEN Len(items) ELSE batchSize)

flushStart(R) ==
  LET handed == nextBatch(R.batch)
      rest == SubSeq(R.batch, Len(handed) + 1, Len(R.batch))
  IN [R EXCEPT !.batch = rest,
               !.batchSince = IF rest = <<>> THEN NoTime ELSE @,
               !.flushing = handed]

flushEnd(R, storageOk, t) ==
  flushBatch([R EXCEPT !.flushing = <<>>], R.flushing, storageOk, t)

(* The trigger fires and the callback returns before anything else         *)
(* happens: args records whether the callback failed, and the batch it was *)
(* given.                                                                  *)
ScheduledFlush(storageOk) ==
  /\ FlushDue
  /\ flushing = <<>>
  /\ LET started == flushStart(Repo)
         r == flushEnd(started, storageOk, now)
     IN /\ InstallRepo(r.repo, "flush")
        /\ last' = [op |-> "flush", threw |-> FALSE, ret |-> <<>>,
                    args |-> <<r.threw, started.flushing>>]
  /\ UNCHANGED <<submitted, flushes>>
  /\ UNCHANGED <<now, spanCalls>>
  /\ UNCHANGED pipelineVars

(* The same in two steps, the callback running between them. *)
FlushStartNotDeferred ==
  /\ FlushDue
  /\ InstallRepo(flushStart(Repo), "flush")
  /\ flushes' = Append(flushes, nextBatch(batch))
  /\ UNCHANGED submitted
  /\ last' = [op |-> "flushStart", threw |-> FALSE, ret |-> <<>>,
              args |-> <<nextBatch(batch)>>]
  /\ UNCHANGED <<now, spanCalls>>
  /\ UNCHANGED pipelineVars

FlushStart ==
  /\ FlushDue
  /\ flushing = <<>>
  /\ InstallRepo(flushStart(Repo), "flush")
  /\ flushes' = Append(flushes, nextBatch(batch))
  /\ UNCHANGED submitted
  /\ last' = [op |-> "flushStart", threw |-> FALSE, ret |-> <<>>,
              args |-> <<nextBatch(batch)>>]
  /\ UNCHANGED <<now, spanCalls>>
  /\ UNCHANGED pipelineVars

FlushEnd(storageOk) ==
  /\ flushing # <<>>
  /\ LET r == flushEnd(Repo, storageOk, now)
     IN /\ InstallRepo(r.repo, "flush")
        /\ last' = [op |-> "flush", threw |-> FALSE, ret |-> <<>>,
                    args |-> <<r.threw, flushing>>]
  /\ UNCHANGED <<submitted, flushes>>
  /\ UNCHANGED <<now, spanCalls>>
  /\ UNCHANGED pipelineVars

Without(s, i) == SubSeq(s, 1, i - 1) \o SubSeq(s, i + 1, Len(s))

(* One turn of the loop of #publishToRedis: the first id that is left is   *)
(* published, or the publish fails and the run ends there, the ids after   *)
(* it never published.  A run with no id left is over.  ret is the message *)
(* the broker took.                                                        *)
(* The broker passes a message to every connection that has a pattern     *)
(* registered that the channel matches, and the handler of the connection  *)
(* emits it when the channel starts with the prefix of its trace.  The     *)
(* channels are those of the spans of the inputs.                          *)
ChannelSpanIds == {"X", "Y"}

StartsWith(channel, prefix) ==
  \E spanId \in ChannelSpanIds : channel = prefix \o spanId

pmessage(subscription, channel, message) ==
  IF /\ subscription.registered
     /\ StartsWith(channel, subscription.pattern)
     /\ StartsWith(channel, "events:" \o subscription.traceId \o ":")
  THEN [subscription EXCEPT !.emitted = Append(@, message)]
  ELSE subscription

PublishNext(i, brokerOk) ==
  /\ i \in DOMAIN publishTasks
  /\ LET task == publishTasks[i]
         rest == [task EXCEPT !.ids = Tail(@)]
     IN /\ publishTasks' =
             IF brokerOk /\ rest.ids # <<>>
             THEN [publishTasks EXCEPT ![i] = rest]
             ELSE Without(publishTasks, i)
        /\ subscriptions' =
             IF brokerOk
             THEN [k \in DOMAIN subscriptions |->
                     pmessage(subscriptions[k], Head(task.ids), now)]
             ELSE subscriptions
        /\ last' = [op |-> "publish", threw |-> ~brokerOk,
                    ret |-> IF brokerOk
                            THEN <<[channel |-> Head(task.ids), message |-> now]>>
                            ELSE <<>>,
                    args |-> <<task>>]
  /\ UNCHANGED <<now, taskEvents, taskEventSeq, batch, batchSince, spanCalls>>
  /\ UNCHANGED schedulerVars
  /\ UNCHANGED subscriberCount
  /\ UNCHANGED pipelineVars

(* The clock of the span repository's runs. *)
SpanTick ==
  /\ now < MaxSpanNow
  /\ Tick

CancelTimes == {1}

NextInsert == \E event \in InsertEvents : Insert(event)

NextInsertImmediate ==
  \E event \in InsertImmediateEvents, storageOk \in BOOLEAN :
     InsertImmediate(event, storageOk)

NextInsertMany == \E events \in InsertManyEvents : InsertMany(events)

NextInsertManyImmediate ==
  \E events \in InsertManyImmediateEvents, storageOk \in BOOLEAN :
     InsertManyImmediate(events, storageOk)

NextCompleteEvent ==
  \E spanId \in {"X", "Y"}, first \in 1..(Len(taskEvents) + 1),
     options \in { UpdateEventOptions(FALSE, NoTime, Undef, Undef),
                   UpdateEventOptions(TRUE, 2, "out", "text/plain") } :
     CompleteEvent(spanId, options, first)

NextCancelEvent ==
  \E event \in Range(taskEvents), cancelledAt \in CancelTimes, storageOk \in BOOLEAN :
     CancelEvent(event, cancelledAt, "user", storageOk)

NextCrashEvent ==
  \E event \in Range(taskEvents), storageOk \in BOOLEAN :
     CrashEvent(event, 2, "boom", storageOk)

NextQueryIncompleteEvents ==
  \E queryOptions \in { QueryOptions(Undef, "X"), QueryOptions("t1", Undef),
                        QueryOptions("t2", "X") } :
     QueryIncompleteEvents(queryOptions)

NextScheduledFlush == \E storageOk \in BOOLEAN : ScheduledFlush(storageOk)

NextPublish ==
  \E i \in DOMAIN publishTasks, brokerOk \in BOOLEAN : PublishNext(i, brokerOk)

(* The write paths of the repository: events come in one by one or in      *)
(* batches, buffered or immediate, and are flushed and published.          *)
NextSpans ==
  \/ NextInsert
  \/ NextInsertImmediate
  \/ NextInsertMany
  \/ NextInsertManyImmediate
  \/ NextScheduledFlush
  \/ NextPublish
  \/ SpanTick

SpecSpans == Init /\ [][NextSpans]_vars

(* The life of a span: its partial row is written, then it is completed,   *)
(* cancelled or crashed, queried, and in the end truncated.                *)
NextSpanLife ==
  \/ NextInsertImmediate
  \/ NextCompleteEvent
  \/ NextCancelEvent
  \/ NextCrashEvent
  \/ NextQueryIncompleteEvents
  \/ TruncateEvents
  \/ NextScheduledFlush
  \/ NextPublish
  \/ SpanTick

SpecSpanLife == Init /\ [][NextSpanLife]_vars

(* Every operation that writes: what happens to the rows of the table.     *)
(* The publisher touches no row, and its runs stay where they started.     *)
NextSpanRows ==
  \/ NextInsert
  \/ NextInsertImmediate
  \/ NextInsertMany
  \/ NextInsertManyImmediate
  \/ NextCompleteEvent
  \/ NextCancelEvent
  \/ NextCrashEvent
  \/ TruncateEvents
  \/ NextScheduledFlush
  \/ SpanTick

SpecSpanRows == Init /\ [][NextSpanRows]_vars

(***************************************************************************)
(* getTraceSummary: the rows of a trace, read in the order of startTime,   *)
(* reduced to one entry per span.                                          *)
(***************************************************************************)
parseEventsField(events) ==
  [i \in DOMAIN events |->
     [name |-> events[i].name, time |-> events[i].time,
      properties |-> events[i].properties]]

prepareEvent(event) == [event EXCEPT !.events = parseEventsField(@)]

Find(events, spanId) ==
  LET at == { i \in DOMAIN events : events[i].spanId = spanId }
  IN IF at = {} THEN <<>> ELSE <<events[CHOOSE i \in at : \A j \in at : i <= j]>>

(* A Map keeps a key at the place of its first set; a later set of the key *)
(* replaces the value there.                                               *)
RECURSIVE removeDuplicateEventsFrom(_, _)
removeDuplicateEventsFrom(events, dedupedEvents) ==
  IF events = <<>> THEN dedupedEvents
  ELSE LET event == Head(events)
           at == { i \in DOMAIN dedupedEvents : dedupedEvents[i].spanId = event.spanId }
       IN removeDuplicateEventsFrom(
            Tail(events),
            IF at = {} THEN Append(dedupedEvents, event)
            ELSE IF event.isCancelled \/ ~event.isPartial
                 THEN [dedupedEvents EXCEPT ![CHOOSE i \in at : TRUE] = event]
                 ELSE dedupedEvents)

removeDuplicateEvents(events) == removeDuplicateEventsFrom(events, <<>>)

RECURSIVE isAncestorCancelled(_, _)
isAncestorCancelled(events, spanId) ==
  LET event == Find(events, spanId)
  IN IF event = <<>> THEN FALSE
     ELSE IF event[1].isCancelled THEN TRUE
     ELSE IF event[1].parentId # Undef
          THEN isAncestorCancelled(events, event[1].parentId)
          ELSE FALSE

RECURSIVE findFirstCancelledAncestor(_, _)
findFirstCancelledAncestor(events, spanId) ==
  LET event == Find(events, spanId)
  IN IF event = <<>> THEN <<>>
     ELSE IF event[1].isCancelled THEN event
     ELSE IF event[1].parentId # Undef
          THEN findFirstCancelledAncestor(events, event[1].parentId)
          ELSE <<>>

calculateDurationIfAncestorIsCancelled(events, spanId, defaultDuration) ==
  LET event == Find(events, spanId)
  IN IF event = <<>> THEN defaultDuration
     ELSE IF event[1].isCancelled THEN defaultDuration
     ELSE IF ~event[1].isPartial THEN defaultDuration
     ELSE IF event[1].parentId = Undef THEN defaultDuration
     ELSE
     LET cancelledAncestor == findFirstCancelledAncestor(events, event[1].parentId)
     IN IF cancelledAncestor = <<>> THEN defaultDuration
        ELSE
        LET cancellationEvent ==
              SelectSeq(cancelledAncestor[1].events, LAMBDA e : e.name = "cancellation")
        IN IF cancellationEvent = <<>> THEN defaultDuration
           ELSE calculateDurationFromStart(event[1].startTime,
                                           cancellationEvent[1].time, NoTime)

getDateFromNanoseconds(nanoseconds) == nanoseconds \div NanosecondsPerMillisecond

SpanSummaryKeepsPartial(preparedEvents, event) ==
  LET ancestorCancelled == isAncestorCancelled(preparedEvents, event.spanId)
      duration == calculateDurationIfAncestorIsCancelled(preparedEvents, event.spanId,
                                                         event.duration)
  IN [recordId |-> event.id, id |-> event.spanId, parentId |-> event.parentId,
      data |-> [duration |-> duration,
                isError |-> event.isError,
                isPartial |-> event.isPartial,
                isCancelled |-> IF event.isCancelled THEN TRUE
                                ELSE event.isPartial /\ ancestorCancelled,
                startTime |-> getDateFromNanoseconds(event.startTime),
                events |-> event.events]]

SpanSummary(preparedEvents, event) ==
  LET ancestorCancelled == isAncestorCancelled(preparedEvents, event.spanId)
      duration == calculateDurationIfAncestorIsCancelled(preparedEvents, event.spanId,
                                                         event.duration)
  IN [recordId |-> event.id, id |-> event.spanId, parentId |-> event.parentId,
      data |-> [duration |-> duration,
                isError |-> event.isError,
                isPartial |-> IF ancestorCancelled THEN FALSE ELSE event.isPartial,
                isCancelled |-> IF event.isCancelled THEN TRUE
                                ELSE event.isPartial /\ ancestorCancelled,
                startTime |-> getDateFromNanoseconds(event.startTime),
                events |-> event.events]]

getTraceSummaryRootIsFirstRow(events) ==
  LET preparedEvents ==
        removeDuplicateEvents([i \in DOMAIN events |-> prepareEvent(events[i])])
      spans == [i \in DOMAIN preparedEvents |->
                  SpanSummary(preparedEvents, preparedEvents[i])]
      rootSpanId == events
  IN IF rootSpanId = <<>> THEN <<>>
     ELSE LET rootSpan == SelectSeq(spans, LAMBDA span : span.id = rootSpanId[1].spanId)
          IN IF rootSpan = <<>> THEN <<>>
             ELSE <<[rootSpan |-> rootSpan[1], spans |-> spans]>>

(* events is the result of the findMany: the rows of the trace in the      *)
(* order of startTime.  The result is <<>> for undefined.                  *)
getTraceSummary(events) ==
  LET preparedEvents ==
        removeDuplicateEvents([i \in DOMAIN events |-> prepareEvent(events[i])])
      spans == [i \in DOMAIN preparedEvents |->
                  SpanSummary(preparedEvents, preparedEvents[i])]
      rootSpanId == SelectSeq(events, LAMBDA event : event.parentId = Undef)
  IN IF rootSpanId = <<>> THEN <<>>
     ELSE LET rootSpan == SelectSeq(spans, LAMBDA span : span.id = rootSpanId[1].spanId)
          IN IF rootSpan = <<>> THEN <<>>
             ELSE <<[rootSpan |-> rootSpan[1], spans |-> spans]>>

(* orderBy startTime asc says nothing of rows with equal startTime: the    *)
(* database may return them in any order.                                  *)
RECURSIVE OrderedByStartTime(_, _)
OrderedByStartTime(found, S) ==
  IF S = {} THEN {<<>>}
  ELSE UNION { { <<found[i]>> \o rest : rest \in OrderedByStartTime(found, S \ {i}) }
               : i \in { j \in S : \A k \in S : found[j].startTime <= found[k].startTime } }

FindManyOfTrace(rows, traceId) ==
  LET found == SelectSeq(rows, LAMBDA event : event.traceId = traceId)
  IN OrderedByStartTime(found, DOMAIN found)

GetTraceSummary(traceId, events) ==
  /\ events \in FindManyOfTrace(taskEvents, traceId)
  /\ SpanRead("getTraceSummary", getTraceSummary(events), <<traceId>>)

(* A trace of three partial spans, A the root, B its child, C the child of *)
(* B that starts after the times at which A and B get cancelled.           *)
SpanA == CreatableEvent("T", "A", Undef, TRUE, 0, 0, <<>>)
SpanB == CreatableEvent("T", "B", "A", TRUE, 100 * NanosecondsPerMillisecond, 0, <<>>)
SpanC == CreatableEvent("T", "C", "B", TRUE, 600 * NanosecondsPerMillisecond, 0, <<>>)

(* The trace is written first, in one insertManyImmediate. *)
InsertTrace ==
  /\ taskEventSeq = 0
  /\ batch = <<>>
  /\ InstallRepo(insertManyImmediate(Repo, <<SpanA, SpanB, SpanC>>, TRUE, now).repo,
                 "insertManyImmediate")
  /\ UNCHANGED <<submitted, flushes>>
  /\ last' = [op |-> "insertManyImmediate", threw |-> FALSE, ret |-> <<>>,
              args |-> <<SpanA, SpanB, SpanC>>]
  /\ UNCHANGED <<now, spanCalls>>
  /\ UNCHANGED pipelineVars

TraceCancelTimes == {300, 500}
TraceEndTimes == {700, 800}

NextCompleteTraceSpan ==
  \E spanId \in {"A", "B"}, first \in 1..(Len(taskEvents) + 1),
     endTime \in TraceEndTimes :
     CompleteEvent(spanId, UpdateEventOptions(FALSE, endTime, Undef, Undef), first)

NextCancelTraceSpan ==
  \E event \in Range(taskEvents), cancelledAt \in TraceCancelTimes :
     CancelEvent(event, cancelledAt, "user", TRUE)

NextGetTraceSummary ==
  \E events \in FindManyOfTrace(taskEvents, "T") : GetTraceSummary("T", events)

(* The runs of the publisher read and write no row: they are left pending. *)
NextTrace ==
  \/ InsertTrace
  \/ NextCompleteTraceSpan
  \/ NextCancelTraceSpan
  \/ NextGetTraceSummary
  \/ NextScheduledFlush
  \/ SpanTick

SpecTrace == Init /\ [][NextTrace]_vars

(***************************************************************************)
(* getTraceSummary over rows whose parent links are not a tree.  The walk  *)
(* of isAncestorCancelled goes from a span to its parent, one call for     *)
(* each span it visits, and stops at a missing span, at a cancelled span   *)
(* or at a span without parentId.  The walk is a function of the spanId it *)
(* is at: once it has visited more spans than there are it has been at     *)
(* some span twice and goes round for ever, until the call stack is        *)
(* exhausted and the recursion throws a RangeError.                        *)
(***************************************************************************)
RECURSIVE isAncestorCancelledVisits(_, _, _)
isAncestorCancelledVisits(events, spanId, visited) ==
  LET event == Find(events, spanId)
  IN IF visited > Len(events) THEN visited
     ELSE IF event = <<>> THEN visited
     ELSE IF event[1].isCancelled THEN visited + 1
     ELSE IF event[1].parentId # Undef
          THEN isAncestorCancelledVisits(events, event[1].parentId, visited + 1)
          ELSE visited + 1

LongestWalk(preparedEvents) ==
  LET walks == { isAncestorCancelledVisits(preparedEvents, preparedEvents[i].spanId, 0)
                 : i \in DOMAIN preparedEvents }
  IN IF walks = {} THEN 0 ELSE CHOOSE c \in walks : \A d \in walks : d <= c

(* The spans are built, with their walks, before the root is looked for. *)
getTraceSummaryCall(events) ==
  LET preparedEvents ==
        removeDuplicateEvents([i \in DOMAIN events |-> prepareEvent(events[i])])
      walk == LongestWalk(preparedEvents)
  IN IF walk > Len(preparedEvents)
     THEN [threw |-> TRUE, ret |-> <<>>, walk |-> walk, spans |-> Len(preparedEvents)]
     ELSE [threw |-> FALSE, ret |-> getTraceSummary(events), walk |-> walk,
           spans |-> Len(preparedEvents)]

GetTraceSummaryOfAnyRows(traceId, events) ==
  /\ events \in FindManyOfTrace(taskEvents, traceId)
  /\ LET r == getTraceSummaryCall(events)
     IN last' = [op |-> "getTraceSummary", threw |-> r.threw, ret |-> r.ret,
                 args |-> <<traceId>>, walk |-> r.walk, spans |-> r.spans]
  /\ UNCHANGED now
  /\ UNCHANGED spanVars
  /\ UNCHANGED pipelineVars

(* Traces as insertMany accepts them: a well-formed chain, a parentId that *)
(* names no span, a span that is its own parent, two spans that are each   *)
(* other's parent, a trace in which every span has a parentId, and a trace *)
(* whose root starts after its child.                                      *)
WalkSpan(spanId, parentId, startTime) ==
  CreatableEvent("W", spanId, parentId, TRUE, startTime * NanosecondsPerMillisecond, 0, <<>>)

WalkTraces ==
  { <<WalkSpan("R", Undef, 0), WalkSpan("P", "R", 100), WalkSpan("Q", "P", 200)>>,
    <<WalkSpan("R", Undef, 0), WalkSpan("P", "missing", 100)>>,
    <<WalkSpan("R", Undef, 0), WalkSpan("P", "P", 100)>>,
    <<WalkSpan("R", Undef, 0), WalkSpan("P", "Q", 100), WalkSpan("Q", "P", 200)>>,
    <<WalkSpan("P", "R", 100), WalkSpan("Q", "P", 200)>>,
    <<WalkSpan("P", "R", 100), WalkSpan("R", Undef, 300)>> }

InsertWalkTrace(events) ==
  /\ taskEventSeq = 0
  /\ batch = <<>>
  /\ InstallRepo(insertManyImmediate(Repo, events, TRUE, now).repo, "insertManyImmediate")
  /\ UNCHANGED <<submitted, flushes>>
  /\ last' = [op |-> "insertManyImmediate", threw |-> FALSE, ret |-> <<>>,
              args |-> events]
  /\ UNCHANGED <<now, spanCalls>>
  /\ UNCHANGED pipelineVars

NextInsertWalkTrace == \E events \in WalkTraces : InsertWalkTrace(events)

NextGetTraceSummaryOfAnyRows ==
  \E events \in FindManyOfTrace(taskEvents, "W") : GetTraceSummaryOfAnyRows("W", events)

NextWalk ==
  \/ NextInsertWalkTrace
  \/ NextCancelTraceSpan
  \/ NextGetTraceSummaryOfAnyRows

SpecWalk == Init /\ [][NextWalk]_vars

(***************************************************************************)
(* recordEvent and traceEvent: the repository synthesizes the span.  A     *)
(* traceparent string is held as its parts between the "-", and <<>> is    *)
(* the traceparent that is absent or empty; NoTime is the startTime or     *)
(* endTime that is not given.                                              *)
(***************************************************************************)
parseTraceparent(traceparent) ==
  IF traceparent = <<>> THEN <<>>
  ELSE LET parts == traceparent
       IN IF Len(parts) # 4 THEN <<>>
          ELSE IF parts[1] # "00" THEN <<>>
          ELSE <<[traceId |-> parts[2], spanId |-> parts[3]]>>

extractContextFromCarrier(carrier) ==
  [traceparent |-> parseTraceparent(carrier.traceparent),
   tracestate |-> carrier.tracestate]

getNowInNanoseconds(t) == t * NanosecondsPerMillisecond

(* The first 8 bytes of the sha1 of traceId and seed: a function of both. *)
generateDeterministicSpanId(traceId, seed) == "sha1:" \o traceId \o ":" \o seed

(* ids holds what the random id generator gives when it is asked. *)
TraceEventOptions(context, startTime, endTime, seed, runId, immediate, incomplete, link) ==
  [context |-> context, startTime |-> startTime, endTime |-> endTime,
   spanIdSeed |-> seed, attributes |-> [runId |-> runId],
   immediate |-> immediate, incomplete |-> incomplete,
   spanParentAsLink |-> link]

recordEvent(R, message, options, ids, storageOk, t) ==
  LET propagatedContext == extractContextFromCarrier(options.context)
      startTime == IF options.startTime # NoTime THEN options.startTime
                   ELSE getNowInNanoseconds(t)
      duration == IF options.endTime # NoTime
                  THEN calculateDurationFromStart(startTime, options.endTime, t)
                  ELSE 100
      traceId == IF propagatedContext.traceparent # <<>>
                 THEN propagatedContext.traceparent[1].traceId ELSE ids.traceId
      parentId == IF propagatedContext.traceparent # <<>>
                  THEN propagatedContext.traceparent[1].spanId ELSE Undef
      spanId == IF options.spanIdSeed # Undef
                THEN generateDeterministicSpanId(traceId, options.spanIdSeed)
                ELSE ids.spanId
  IN IF options.attributes.runId = Undef THEN Failed(R)
     ELSE
     LET event == CreatableEvent(traceId, spanId, parentId, FALSE, startTime,
                                 duration, <<>>)
     IN IF options.immediate
        THEN LET r == insertImmediate(R, event, storageOk, t)
             IN IF r.threw THEN r ELSE Ok(r.repo, <<event>>)
        ELSE Ok(addToBatch(R, <<event>>, t), <<event>>)

(* callback says what the caller's function does when it is called: it may *)
(* set the runId attribute through the builder, it takes elapsed           *)
(* nanoseconds, and it throws or returns result.  invoked records whether  *)
(* traceEvent called it.                                                   *)
Callback(runId, elapsed, throws, result) ==
  [runId |-> runId, elapsed |-> elapsed, throws |-> throws, result |-> result]

traceEvent(R, message, options, callback, ids, storageOk, t) ==
  LET propagatedContext == extractContextFromCarrier(options.context)
      startTime == getNowInNanoseconds(t)
      inherits == ~options.spanParentAsLink /\ propagatedContext.traceparent # <<>>
      traceId == IF inherits THEN propagatedContext.traceparent[1].traceId
                 ELSE ids.traceId
      parentId == IF inherits THEN propagatedContext.traceparent[1].spanId ELSE Undef
      spanId == IF options.spanIdSeed # Undef
                THEN generateDeterministicSpanId(traceId, options.spanIdSeed)
                ELSE ids.spanId
      runId == IF callback.runId # Undef THEN callback.runId
               ELSE options.attributes.runId
      duration == callback.elapsed
  IN IF callback.throws THEN [Failed(R) EXCEPT !.ret = <<>>] @@ [invoked |-> TRUE]
     ELSE IF runId = Undef THEN Failed(R) @@ [invoked |-> TRUE]
     ELSE
     LET event == CreatableEvent(traceId, spanId, parentId, options.incomplete,
                                 startTime,
                                 IF options.incomplete THEN 0 ELSE duration, <<>>)
     IN IF options.immediate
        THEN LET r == insertImmediate(R, event, storageOk, t)
             IN (IF r.threw THEN r ELSE Ok(r.repo, <<callback.result>>))
                @@ [invoked |-> TRUE]
        ELSE Ok(addToBatch(R, <<event>>, t), <<callback.result>>)
             @@ [invoked |-> TRUE]

RecordEvent(options, ids, storageOk) ==
  SpanCall("recordEvent", recordEvent(Repo, "message", options, ids, storageOk, now),
           <<options, ids>>)

TraceEvent(options, callback, ids, storageOk) ==
  LET r == traceEvent(Repo, "message", options, callback, ids, storageOk, now)
  IN /\ spanCalls < MaxSpanCalls
     /\ spanCalls' = spanCalls + 1
     /\ InstallRepo(r.repo, "traceEvent")
     /\ UNCHANGED <<submitted, flushes>>
     /\ last' = [op |-> "traceEvent", threw |-> r.threw, ret |-> r.ret,
                 args |-> <<options, ids, callback>>, invoked |-> r.invoked]
     /\ UNCHANGED now
     /\ UNCHANGED pipelineVars

(* The callers' contexts: none, the traceparent of span P of trace T, and  *)
(* a traceparent of a version the repository does not read.                *)
NoContext == [traceparent |-> <<>>, tracestate |-> Undef]
ParentContext == [traceparent |-> <<"00", "T", "P", "01">>, tracestate |-> Undef]
UnreadContext == [traceparent |-> <<"01", "T", "P", "01">>, tracestate |-> Undef]

RecordEventInputs ==
  { TraceEventOptions(NoContext, NoTime, NoTime, Undef, "run_1", TRUE, FALSE, FALSE),
    TraceEventOptions(ParentContext, NoTime, NoTime, Undef, "run_1", FALSE, FALSE, FALSE),
    TraceEventOptions(ParentContext, 0, 1, "seed", "run_1", TRUE, FALSE, FALSE),
    TraceEventOptions(UnreadContext, NoTime, NoTime, Undef, "run_1", FALSE, FALSE, FALSE),
    TraceEventOptions(ParentContext, NoTime, NoTime, Undef, Undef, TRUE, FALSE, FALSE),
    TraceEventOptions(NoContext, NoTime, NoTime, Undef, Undef, FALSE, FALSE, FALSE) }

TraceEventInputs ==
  { TraceEventOptions(NoContext, NoTime, NoTime, Undef, "run_1", TRUE, TRUE, FALSE),
    TraceEventOptions(ParentContext, NoTime, NoTime, Undef, "run_1", FALSE, FALSE, FALSE),
    TraceEventOptions(ParentContext, NoTime, NoTime, "seed", "run_1", TRUE, FALSE, TRUE),
    TraceEventOptions(ParentContext, NoTime, NoTime, Undef, Undef, TRUE, FALSE, FALSE),
    TraceEventOptions(NoContext, NoTime, NoTime, Undef, Undef, FALSE, TRUE, FALSE) }

Callbacks ==
  { Callback(Undef, 5, FALSE, "result"),
    Callback(Undef, 5, TRUE, Undef),
    Callback("run_2", 7, FALSE, "result") }

GeneratedIds == { [traceId |-> "t9", spanId |-> "s9"] }

NextRecordEvent ==
  \E options \in RecordEventInputs, ids \in GeneratedIds, storageOk \in BOOLEAN :
     RecordEvent(options, ids, storageOk)

NextTraceEvent ==
  \E options \in TraceEventInputs, callback \in Callbacks, ids \in GeneratedIds,
     storageOk \in BOOLEAN :
     TraceEvent(options, callback, ids, storageOk)

NextRecord ==
  \/ NextRecordEvent
  \/ NextTraceEvent
  \/ NextScheduledFlush
  \/ NextPublish
  \/ SpanTick

SpecRecord == Init /\ [][NextRecord]_vars

(***************************************************************************)
(* The scheduler driven on its own: items are given to addToBatch, one or  *)
(* several at a time, the triggers fire, and the callback (#flushBatch)    *)
(* takes its time.                                                         *)
(***************************************************************************)
AddToBatch(items) ==
  /\ Len(submitted) + Len(items) <= MaxSubmitted
  /\ InstallRepo(addToBatch(Repo, items, now), "addToBatch")
  /\ submitted' = submitted \o [i \in DOMAIN items |-> [item |-> items[i], at |-> now]]
  /\ UNCHANGED flushes
  /\ last' = [op |-> "addToBatch", threw |-> FALSE, ret |-> <<>>, args |-> items]
  /\ UNCHANGED <<now, spanCalls>>
  /\ UNCHANGED pipelineVars

AddToBatchItems ==
  { <<PartialX>>, <<PartialY, CompleteX>>, <<PartialX2, PartialY, CompleteX>> }

NextAddToBatch == \E items \in AddToBatchItems : AddToBatch(items)

NextFlushEnd == \E storageOk \in BOOLEAN : FlushEnd(storageOk)

NextScheduler ==
  \/ NextAddToBatch
  \/ FlushStart
  \/ NextFlushEnd
  \/ SpanTick

SpecScheduler == Init /\ [][NextScheduler]_vars

(***************************************************************************)
(* subscribeToTrace.  A subscription is the connection the call opens:     *)
(* its trace, the pattern it asks the broker for (held as the text before  *)
(* the "*"), whether the pattern is registered at the broker, the state of *)
(* the connection (open, closing once quit has been sent, closed once the  *)
(* broker has answered), the messages its emitter has emitted, whether the *)
(* caller got the handle, and whether unsubscribe has returned.            *)
(***************************************************************************)
Subscription(traceId, registered, handle) ==
  [traceId |-> traceId, pattern |-> "events:" \o traceId \o ":",
   registered |-> registered, connection |-> "open", emitted |-> <<>>,
   handle |-> handle, unsubscribed |-> FALSE]

RepositoryUnchanged ==
  /\ UNCHANGED <<now, taskEvents, taskEventSeq, batch, batchSince, publishTasks,
                 spanCalls>>
  /\ UNCHANGED schedulerVars
  /\ UNCHANGED pipelineVars

(* psubscribe is awaited: when it fails the call throws with the           *)
(* connection made and nothing returned.  ret is the place of the          *)
(* subscription.                                                           *)
SubscribeToTrace(traceId, brokerOk) ==
  /\ Len(subscriptions) < MaxSubscriptions
  /\ subscriptions' = Append(subscriptions, Subscription(traceId, brokerOk, brokerOk))
  /\ subscriberCount' = IF brokerOk THEN subscriberCount + 1 ELSE subscriberCount
  /\ last' = [op |-> "subscribeToTrace", threw |-> ~brokerOk,
              ret |-> IF brokerOk THEN <<Len(subscriptions) + 1>> ELSE <<>>,
              args |-> <<traceId>>]
  /\ RepositoryUnchanged

(* punsubscribe is awaited; quit is called and not awaited: unsubscribe    *)
(* returns while the connection is closing.                                *)
Unsubscribe(i, brokerOk) ==
  /\ i \in DOMAIN subscriptions
  /\ subscriptions[i].handle
  /\ ~subscriptions[i].unsubscribed
  /\ subscriptions' =
       IF brokerOk
       THEN [subscriptions EXCEPT ![i].registered = FALSE,
                                  ![i].connection = "closing",
                                  ![i].unsubscribed = TRUE]
       ELSE subscriptions
  /\ subscriberCount' = IF brokerOk THEN subscriberCount - 1 ELSE subscriberCount
  /\ last' = [op |-> "unsubscribe", threw |-> ~brokerOk, ret |-> <<>>, args |-> <<i>>]
  /\ RepositoryUnchanged

(* The broker answers the quit and the connection is closed. *)
QuitCompletes(i) ==
  /\ i \in DOMAIN subscriptions
  /\ subscriptions[i].connection = "closing"
  /\ subscriptions' = [subscriptions EXCEPT ![i].connection = "closed"]
  /\ last' = [op |-> "quit", threw |-> FALSE, ret |-> <<>>, args |-> <<i>>]
  /\ UNCHANGED subscriberCount
  /\ RepositoryUnchanged

SubscribedTraces == {"t1", "t2"}

NextSubscribeToTrace ==
  \E traceId \in SubscribedTraces, brokerOk \in BOOLEAN :
     SubscribeToTrace(traceId, brokerOk)

NextUnsubscribe ==
  \E i \in DOMAIN subscriptions, brokerOk \in BOOLEAN : Unsubscribe(i, brokerOk)

NextQuitCompletes == \E i \in DOMAIN subscriptions : QuitCompletes(i)

(* Subscribers come and go while spans are written and published. *)
NextSubscribe ==
  \/ NextSubscribeToTrace
  \/ NextUnsubscribe
  \/ NextQuitCompletes
  \/ NextInsertImmediate
  \/ NextPublish
  \/ SpanTick

SpecSubscribe == Init /\ [][NextSubscribe]_vars

(***************************************************************************)
(* unsubscribe called by several callers, or again before an earlier call  *)
(* has returned.  UnsubscribeSend is the call up to the await of           *)
(* punsubscribe, UnsubscribeRest the answer of the broker and the rest of  *)
(* the function: quit, not awaited, and the decrement.  A command sent on  *)
(* a connection that has already been told to quit gets no answer and the  *)
(* call throws; one sent before is answered, also for a pattern that is    *)
(* no longer registered.                                                   *)
(***************************************************************************)
SubscriptionsUnchangedElsewhere ==
  /\ UNCHANGED <<now, taskEvents, taskEventSeq, batch, batchSince, publishTasks,
                 spanCalls>>
  /\ UNCHANGED schedulerVars
  /\ UNCHANGED <<deliverEvents, eventRecords, pipelineRuns, externalAccounts,
                 jobs, sends>>

UnsubscribeSend(p, i) ==
  /\ calls[p] = <<>>
  /\ i \in DOMAIN subscriptions
  /\ subscriptions[i].handle
  /\ calls' = [calls EXCEPT ![p] =
                 <<[subscription |-> i, sentOn |-> subscriptions[i].connection]>>]
  /\ last' = [op |-> "punsubscribe", threw |-> FALSE, ret |-> <<>>, args |-> <<i>>]
  /\ UNCHANGED brokerVars
  /\ SubscriptionsUnchangedElsewhere

UnsubscribeRest(p, brokerOk) ==
  /\ calls[p] # <<>>
  /\ LET i == calls[p][1].subscription
         answered == brokerOk /\ calls[p][1].sentOn = "open"
     IN /\ subscriptions' =
             IF answered
             THEN [subscriptions EXCEPT
                     ![i].registered = FALSE,
                     ![i].connection = IF @ = "open" THEN "closing" ELSE @,
                     ![i].unsubscribed = TRUE]
             ELSE subscriptions
        /\ subscriberCount' = IF answered THEN subscriberCount - 1 ELSE subscriberCount
        /\ last' = [op |-> "unsubscribe", threw |-> ~answered, ret |-> <<>>,
                    args |-> <<i>>]
  /\ calls' = [calls EXCEPT ![p] = <<>>]
  /\ SubscriptionsUnchangedElsewhere

NextUnsubscribeSend ==
  \E p \in Senders, i \in DOMAIN subscriptions : UnsubscribeSend(p, i)

NextUnsubscribeRest ==
  \E p \in Senders, brokerOk \in BOOLEAN : UnsubscribeRest(p, brokerOk)

NextSubscriberCount ==
  \/ NextSubscribeToTrace
  \/ NextUnsubscribeSend
  \/ NextUnsubscribeRest
  \/ NextQuitCompletes

SpecSubscriberCount == Init /\ [][NextSubscriberCount]_vars

(***************************************************************************)
(* Concurrent runPipeline invocations.  The job is delivered at least      *)
(* once, so two workers may run RunPipeline.call for the same id, each in  *)
(* its own transaction: RunPipelineFind is the call up to the result of    *)
(* findUniqueOrThrow, RunPipelineRest the rest of the transaction and its  *)
(* commit, on the run as the call read it.  The create of the output       *)
(* event waits for a transaction that holds the same unique key and fails  *)
(* on the index once that transaction has committed.                       *)
(***************************************************************************)
RunPipelineAfterFind(db, run, t) ==
  LET S == Begin(db) IN
  IF run.status = "FAILURE" \/ run.status = "SUCCESS" THEN Returned(S, "terminal", <<>>)
  ELSE IF run.nextStepIndex = NullIndex THEN Returned(S, "nullIndex", <<>>)
  ELSE IF run.nextStepIndex + 1 \notin DOMAIN run.steps THEN Returned(S, "noStep", <<>>)
  ELSE runStep(S, run, t)

InstallWithin(db, maxEvents, maxRuns) ==
  /\ Len(db.events) <= maxEvents
  /\ Len(db.runs) <= maxRuns
  /\ eventRecords' = db.events
  /\ pipelineRuns' = db.runs
  /\ externalAccounts' = db.accounts
  /\ jobs' = db.jobs

RunPipelineFind(p, id) ==
  /\ calls[p] = <<>>
  /\ id \in DOMAIN pipelineRuns
  /\ calls' = [calls EXCEPT ![p] = <<[id |-> id, run |-> pipelineRuns[id]]>>]
  /\ last' = [NoCall EXCEPT !.op = "findUniqueOrThrow"]
  /\ UNCHANGED <<now, deliverEvents, eventRecords, pipelineRuns,
                 externalAccounts, jobs, sends>>
  /\ UNCHANGED spanVars

RunPipelineRest(p, abort) ==
  /\ calls[p] # <<>>
  /\ LET c == calls[p][1]
         job == [BlankJob EXCEPT !.name = "runPipeline", !.id = c.id]
         r == RunPipelineAfterFind(DB, c.run, now)
     IN /\ InstallWithin(Settle(r, abort, job), MaxRaceEvents, MaxRuns)
        /\ last' = [op |-> "runPipeline", path |-> Outcome(r, abort).path,
                    threw |-> r.threw \/ abort, abort |-> abort,
                    fromJob |-> BagIn(job, jobs), ret |-> Outcome(r, abort).ret,
                    id |-> c.id, caller |-> p]
  /\ calls' = [calls EXCEPT ![p] = <<>>]
  /\ UNCHANGED <<now, deliverEvents, sends>>
  /\ UNCHANGED spanVars

Workers == Senders

NextRunPipelineFind ==
  \E p \in Workers, id \in DOMAIN pipelineRuns : RunPipelineFind(p, id)

NextRunPipelineRest == \E p \in Workers, abort \in BOOLEAN : RunPipelineRest(p, abort)

NextRunRace == NextRunPipelineFind \/ NextRunPipelineRest

(* The race starts where a send and the createPipeline call for its event  *)
(* have committed: one EventRecord, one PENDING run and its runPipeline    *)
(* job.                                                                    *)
EmptyDatabase ==
  [events |-> <<>>, runs |-> <<>>, accounts |-> {}, jobs |-> EmptyBag]

RunCreated(event, options, pipelineType, assetId) ==
  LET sent == IngestSendEventCall(EmptyDatabase, Environment, event, options, TRUE, 0)
  IN IF sent.threw THEN sent
     ELSE CreatePipelineCall(sent.tx, pipelineType, 1, assetId)

InitRunRace ==
  /\ \E event \in QueueEvents, options \in QueueOptions, asset \in PipelineAssets :
        LET r == RunCreated(event, options, asset[1], asset[2])
        IN /\ ~r.threw
           /\ eventRecords = r.tx.events
           /\ pipelineRuns = r.tx.runs
           /\ externalAccounts = r.tx.accounts
           /\ jobs = r.tx.jobs
  /\ now = 0
  /\ deliverEvents = TRUE
  /\ sends = 1
  /\ last = NoCall
  /\ calls = [p \in Senders |-> <<>>]
  /\ taskEvents = <<>>
  /\ taskEventSeq = 0
  /\ batch = <<>>
  /\ batchSince = NoTime
  /\ publishTasks = <<>>
  /\ spanCalls = 0
  /\ flushing = <<>>
  /\ submitted = <<>>
  /\ flushes = <<>>
  /\ subscriptions = <<>>
  /\ subscriberCount = 0

SpecRunRace == InitRunRace /\ [][NextRunRace]_vars

(***************************************************************************)
(* Repeated sends of one event and the worker that runs the jobs they      *)
(* leave in the queue: a createPipeline or runPipeline job is taken from   *)
(* the queue, its handler is called with the job's payload, and the job    *)
(* is removed when the handler returns.                                    *)
(***************************************************************************)
SendAgain(event, options) ==
  /\ sends < MaxSends
  /\ sends' = sends + 1
  /\ LET r == IngestSendEventCall(DB, Environment, event, options, deliverEvents, now)
     IN /\ InstallWithin(Settle(r, FALSE, BlankJob), MaxRaceEvents, MaxResendRuns)
        /\ last' = [op |-> "send", path |-> r.path, threw |-> r.threw,
                    abort |-> FALSE, fromJob |-> FALSE, ret |-> r.ret,
                    event |-> event, options |-> options]
  /\ UNCHANGED <<now, deliverEvents>>
  /\ UNCHANGED raceVars
  /\ UNCHANGED spanVars

CreatePipelineFromJob(job) ==
  /\ job.name = "createPipeline"
  /\ LET r == CreatePipelineCall(DB, job.type, job.eventRecordId, job.assetId)
     IN /\ InstallWithin(Settle(r, FALSE, job), MaxRaceEvents, MaxResendRuns)
        /\ last' = [op |-> "createPipeline", path |-> r.path, threw |-> r.threw,
                    abort |-> FALSE, fromJob |-> TRUE, ret |-> r.ret]
  /\ UNCHANGED <<now, deliverEvents, sends>>
  /\ UNCHANGED raceVars
  /\ UNCHANGED spanVars

RunPipelineFromJob(job) ==
  /\ job.name = "runPipeline"
  /\ LET r == RunPipelineCall(DB, job.id, now)
     IN /\ InstallWithin(Settle(r, FALSE, job), MaxRaceEvents, MaxResendRuns)
        /\ last' = [op |-> "runPipeline", path |-> r.path, threw |-> r.threw,
                    abort |-> FALSE, fromJob |-> TRUE, ret |-> r.ret,
                    id |-> job.id]
  /\ UNCHANGED <<now, deliverEvents, sends>>
  /\ UNCHANGED raceVars
  /\ UNCHANGED spanVars

NextSendAgain ==
  \E event \in QueueEvents, options \in QueueOptions : SendAgain(event, options)

NextCreatePipelineFromJob == \E job \in DOMAIN jobs : CreatePipelineFromJob(job)

NextRunPipelineFromJob == \E job \in DOMAIN jobs : RunPipelineFromJob(job)

NextResend ==
  \/ NextSendAgain
  \/ NextCreatePipelineFromJob
  \/ NextRunPipelineFromJob

SpecResend == Init /\ [][NextResend]_vars

(***************************************************************************)
(* Vocabulary of the properties.  A property about a call looks at the     *)
(* step that performs it: the call is named by last', the state before it  *)
(* by the unprimed variables.                                              *)
(***************************************************************************)
FollowUpJobs == {"deliverEvent", "events.invokeDispatcher"}

Runnable(run) ==
  /\ ~Terminal(run)
  /\ run.nextStepIndex # NullIndex
  /\ run.nextStepIndex + 1 \in DOMAIN run.steps

CurrentStep(run) ==
  CHOOSE s \in Range(StepTable(run.type)) : s.id = run.steps[run.nextStepIndex + 1]

StepPasses(run) ==
  /\ CurrentStep(run).type = "FILTER"
  /\ EventFilterSchemaSafeParse(CurrentStep(run).config)
  /\ eventFilterMatches(run.output, CurrentStep(run).config)

RunPipelineOn(id) ==
  /\ last'.op = "runPipeline"
  /\ last'.id = id
  /\ id \in DOMAIN pipelineRuns

NoJobEnqueued ==
  \A j \in DOMAIN jobs' : CopiesIn(j, jobs') <= CopiesIn(j, jobs)

RunJob(id) == [BlankJob EXCEPT !.name = "runPipeline", !.id = id]

Consumed == IF last'.fromJob /\ ~last'.threw THEN 1 ELSE 0

(***************************************************************************)
(* C1.  A run with N >= 1 steps that all succeed takes N runPipeline       *)
(* invocations: an invocation whose step passes while further steps remain *)
(* sets status STARTED, increases nextStepIndex by one, re-enqueues        *)
(* runPipeline for the same id and creates no EventRecord; only the        *)
(* invocation on the last step creates the one output EventRecord and      *)
(* enqueues the one follow-up job.                                         *)
(***************************************************************************)
PipelineAdvance ==
  [][ \A id \in DOMAIN pipelineRuns :
        (RunPipelineOn(id) /\ ~last'.threw /\ Runnable(pipelineRuns[id])
           /\ StepPasses(pipelineRuns[id]))
        => LET run == pipelineRuns[id] IN
           IF run.nextStepIndex + 1 < Len(run.steps)
           THEN /\ pipelineRuns'[id].status = "STARTED"
                /\ pipelineRuns'[id].nextStepIndex = run.nextStepIndex + 1
                /\ CopiesIn(RunJob(id), jobs') = CopiesIn(RunJob(id), jobs) + 1 - Consumed
                /\ eventRecords' = eventRecords
                /\ JobCount(jobs', FollowUpJobs) = JobCount(jobs, FollowUpJobs)
           ELSE /\ Len(eventRecords') = Len(eventRecords) + 1
                /\ JobCount(jobs', FollowUpJobs) = JobCount(jobs, FollowUpJobs) + 1
    ]_vars

(***************************************************************************)
(* C2.  Terminal runs are absorbing: a runPipeline invocation on a run     *)
(* whose status is SUCCESS or FAILURE, or whose nextStepIndex is null,     *)
(* changes no field of any run, creates no EventRecord and enqueues no job.*)
(***************************************************************************)
TerminalRunsAbsorbing ==
  [][ \A id \in DOMAIN pipelineRuns :
        (RunPipelineOn(id)
           /\ (Terminal(pipelineRuns[id]) \/ pipelineRuns[id].nextStepIndex = NullIndex))
        => /\ pipelineRuns' = pipelineRuns
           /\ eventRecords' = eventRecords
           /\ NoJobEnqueued
    ]_vars

TerminalRunInvoked ==
  /\ last.op = "runPipeline"
  /\ last.path = "terminal"
  /\ last.id \in DOMAIN pipelineRuns
  /\ pipelineRuns[last.id].status = "FAILURE"

(***************************************************************************)
(* C3.  Every PipelineRun whose status is SUCCESS or FAILURE has           *)
(* nextStepIndex = null.                                                   *)
(***************************************************************************)
TerminalHasNullIndex ==
  \A id \in DOMAIN pipelineRuns :
    Terminal(pipelineRuns[id]) => pipelineRuns[id].nextStepIndex = NullIndex

(***************************************************************************)
(* C4.  Finalizing a run is atomic.  A runPipeline invocation creates an   *)
(* output EventRecord iff it turns the run to SUCCESS iff it enqueues a    *)
(* follow-up job, and it does each at most once.  The output event is the  *)
(* input event with a fresh id, eventId = input eventId ++ ":pipeline:" ++ *)
(* run id, payload = run.output, shouldProcessQueuePipeline = FALSE        *)
(* (shouldProcessDispatcherPipeline = FALSE too for DISPATCHER) and        *)
(* pipelineOutputRunId = run id; the run gets nextStepIndex = null; the    *)
(* job is deliverEvent{id} with runAt = deliverAt and jobKey event:{id}    *)
(* for QUEUE, events.invokeDispatcher{dispatcherId, eventRecordId} for     *)
(* DISPATCHER.                                                             *)
(***************************************************************************)
OutputEventOf(run, inputEvent, outputEvent) ==
  /\ outputEvent.eventId = inputEvent.eventId \o <<"pipeline", run.id>>
  /\ outputEvent.payload = run.output
  /\ outputEvent.shouldProcessQueuePipeline = FALSE
  /\ (run.type = "DISPATCHER" => outputEvent.shouldProcessDispatcherPipeline = FALSE)
  /\ outputEvent.pipelineOutputRunId = run.id
  /\ outputEvent.environmentId = inputEvent.environmentId
  /\ outputEvent.name = inputEvent.name
  /\ outputEvent.queueId = inputEvent.queueId
  /\ outputEvent.deliverAt = inputEvent.deliverAt

FollowUpJobOf(run, outputEvent) ==
  IF run.type = "QUEUE"
  THEN [BlankJob EXCEPT !.name = "deliverEvent", !.eventRecordId = outputEvent.id,
                        !.runAt = outputEvent.deliverAt, !.jobKey = outputEvent.id]
  ELSE [BlankJob EXCEPT !.name = "events.invokeDispatcher",
                        !.assetId = run.metadata.dispatcherId,
                        !.eventRecordId = outputEvent.id]

FilterMismatch(run) ==
  /\ CurrentStep(run).type = "FILTER"
  /\ EventFilterSchemaSafeParse(CurrentStep(run).config)
  /\ ~eventFilterMatches(run.output, CurrentStep(run).config)

FilterMismatchFails ==
  [][ \A id \in DOMAIN pipelineRuns :
        (RunPipelineOn(id) /\ Runnable(pipelineRuns[id])
           /\ FilterMismatch(pipelineRuns[id]))
        => /\ pipelineRuns'[id].status = "FAILURE"
           /\ pipelineRuns'[id].error = "Data does not match filter"
           /\ eventRecords' = eventRecords
           /\ NoJobEnqueued
    ]_vars

FilterMismatchFailed ==
  /\ last.op = "runPipeline"
  /\ last.id \in DOMAIN pipelineRuns
  /\ pipelineRuns[last.id].status = "FAILURE"
  /\ pipelineRuns[last.id].nextStepIndex # NullIndex
  /\ FilterMismatch([pipelineRuns[last.id] EXCEPT !.status = "PENDING"])
  /\ last.path = "failed"

(***************************************************************************)
(* C6.  Every PipelineRun eventually reaches SUCCESS or FAILURE when the   *)
(* worker queue runs every enqueued runPipeline job: an invocation either  *)
(* performs a step and schedules the next, or finalizes.  Stated on finite *)
(* runs: a run that is not terminal always has a runPipeline job pending,  *)
(* so it is never left PENDING or STARTED with nothing to drive it.        *)
(***************************************************************************)
RunsNeverStuck ==
  \A id \in DOMAIN pipelineRuns :
    Terminal(pipelineRuns[id]) \/ BagIn(RunJob(id), jobs)

(***************************************************************************)
(* C7.  Every change of a run's status is PENDING -> STARTED,              *)
(* STARTED -> SUCCESS or STARTED -> FAILURE.                               *)
(***************************************************************************)
StatusTransitions ==
  [][ \A id \in DOMAIN pipelineRuns :
        pipelineRuns'[id].status # pipelineRuns[id].status
        => <<pipelineRuns[id].status, pipelineRuns'[id].status>>
             \in { <<"PENDING", "STARTED">>, <<"STARTED", "SUCCESS">>,
                   <<"STARTED", "FAILURE">> }
    ]_vars

(***************************************************************************)
(* C8.  Every failure of a pipeline step (a filter that does not match, a  *)
(* FILTER config the schema rejects, a WEBHOOK step) leaves the run        *)
(* persisted with status FAILURE and a non-empty error string, whether or  *)
(* not the surrounding transaction commits, and the call throws only when  *)
(* the transaction itself is aborted.                                      *)
(***************************************************************************)
StepFails(run) ==
  \/ CurrentStep(run).type # "FILTER"
  \/ ~EventFilterSchemaSafeParse(CurrentStep(run).config)
  \/ ~eventFilterMatches(run.output, CurrentStep(run).config)

StepFailuresPersisted ==
  [][ \A id \in DOMAIN pipelineRuns :
        (RunPipelineOn(id) /\ Runnable(pipelineRuns[id]) /\ StepFails(pipelineRuns[id]))
        => /\ pipelineRuns'[id].status = "FAILURE"
           /\ pipelineRuns'[id].error \notin {NoError, NullRef}
           /\ (~last'.abort => ~last'.threw)
    ]_vars

WebhookStepFailed ==
  /\ last.op = "runPipeline"
  /\ ~last.threw
  /\ last.id \in DOMAIN pipelineRuns
  /\ pipelineRuns[last.id].status = "FAILURE"
  /\ pipelineRuns[last.id].nextStepIndex # NullIndex
  /\ CurrentStep([pipelineRuns[last.id] EXCEPT !.status = "PENDING"]).type = "WEBHOOK"
  /\ pipelineRuns[last.id].error \notin {NoError, NullRef}

(***************************************************************************)
(* Vocabulary of the ingest properties.                                    *)
(***************************************************************************)
ExistingRow(event) ==
  { i \in DOMAIN eventRecords :
      /\ eventRecords[i].eventId = <<event.id>>
      /\ eventRecords[i].environmentId = Environment.id }

Resend(i) ==
  /\ last'.op = "send"
  /\ i \in ExistingRow(last'.event)

InUpdateWindow(row) == row.deliverAt >= now + 5 * 1000

RequestedDeliverAt(options) ==
  IF options.deliverAt # NoTime THEN options.deliverAt
  ELSE IF options.deliverAfter # 0 THEN now + 1000 * options.deliverAfter
  ELSE now

PayloadOnly(event, options) ==
  /\ event.payload.kind = "object"
  /\ event.context.kind = "undefined"
  /\ event.payloadType = Undef
  /\ options = SendOptions(NoTime, 0, Undef, Undef)

(***************************************************************************)
(* C9.  A second send for an existing (eventId, environmentId) whose row   *)
(* has deliverAt = t, made at time s: when t >= s + 5 s a send that        *)
(* completes updates the row (payload and deliverAt take the values of the *)
(* request); when t < s + 5 s the send changes no EventRecord, enqueues no *)
(* job and returns the existing row.                                       *)
(***************************************************************************)
UpsertWindow ==
  [][ \A i \in DOMAIN eventRecords :
        Resend(i)
        => LET row == eventRecords[i] IN
           IF InUpdateWindow(row)
           THEN ~last'.threw
                => /\ last'.path = "updated"
                   /\ eventRecords'[i].payload =
                        OrElse(last'.event.payload, row.payload)
                   /\ eventRecords'[i].deliverAt = RequestedDeliverAt(last'.options)
                   /\ last'.ret = <<eventRecords'[i]>>
           ELSE /\ eventRecords' = eventRecords
                /\ jobs' = jobs
                /\ (~last'.threw => last'.ret = <<row>>)
    ]_vars

ResendJustOutsideWindow ==
  /\ last.op = "send"
  /\ ~last.threw
  /\ last.path = "unchanged"
  /\ last.ret[1].deliverAt = now + 5 * 1000 - 1
  /\ last.event.payload.kind = "object"
  /\ last.event.payload # last.ret[1].payload
  /\ eventRecords[last.ret[1].id] = last.ret[1]

(***************************************************************************)
(* C10 as stated.  A re-send inside the update window that supplies only a *)
(* new payload replaces the payload and leaves every other field of the    *)
(* row unchanged, deliverAt and queueId included.                          *)
(***************************************************************************)
ResendKeepsOtherFields ==
  [][ \A i \in DOMAIN eventRecords :
        (Resend(i) /\ ~last'.threw /\ InUpdateWindow(eventRecords[i])
           /\ PayloadOnly(last'.event, last'.options))
        => eventRecords'[i] = [eventRecords[i] EXCEPT !.payload = last'.event.payload]
    ]_vars

(***************************************************************************)
(* C10 amended.  A re-send inside the update window that supplies only a   *)
(* new payload replaces the payload, sets deliverAt to the time of the     *)
(* re-send and queueId to null, and leaves every other field of the row    *)
(* and every other row unchanged.                                          *)
(***************************************************************************)
ResendResetsDeliveryAndQueue ==
  [][ \A i \in DOMAIN eventRecords :
        (Resend(i) /\ ~last'.threw /\ InUpdateWindow(eventRecords[i])
           /\ PayloadOnly(last'.event, last'.options))
        => eventRecords' =
             [eventRecords EXCEPT ![i] = [@ EXCEPT !.payload = last'.event.payload,
                                                   !.deliverAt = now,
                                                   !.queueId = NullRef]]
    ]_vars

PayloadOnlyResendUpdated ==
  /\ last.op = "send"
  /\ ~last.threw
  /\ last.path = "updated"
  /\ PayloadOnly(last.event, last.options)
  /\ last.ret[1].payload = last.event.payload
  /\ last.ret[1].queueId = NullRef
  /\ \E j \in DOMAIN jobs :
        /\ j.name = "createPipeline"
        /\ j.eventRecordId = last.ret[1].id
        /\ j.assetId # NullRef

(***************************************************************************)
(* The job a send enqueues for the row it wrote.                           *)
(***************************************************************************)
RoutedToPipeline(row) ==
  /\ row.queueId # NullRef
  /\ Len(QueuePipeline(row.queueId)) >= 1

CreatePipelineJobOf(row) ==
  [BlankJob EXCEPT !.name = "createPipeline", !.type = "QUEUE",
                   !.assetId = row.queueId, !.eventRecordId = row.id]

DeliverEventJobOf(row) ==
  [BlankJob EXCEPT !.name = "deliverEvent", !.eventRecordId = row.id,
                   !.runAt = row.deliverAt, !.jobKey = row.id]

SendWrote ==
  /\ last'.op = "send"
  /\ ~last'.threw
  /\ last'.path \in {"created", "updated"}

NamesNoQueue(options) ==
  /\ options.queueId # Undef
  /\ ~\E q \in Queues : q.projectId = Environment.projectId /\ q.slug = options.queueId

MissingQueueFails ==
  [][ (last'.op = "send" /\ NamesNoQueue(last'.options))
      => /\ last'.threw
         /\ eventRecords' = eventRecords
         /\ externalAccounts' = externalAccounts
         /\ jobs' = jobs
    ]_vars

SendToMissingQueueFailed ==
  /\ last.op = "send"
  /\ last.threw
  /\ ~last.abort
  /\ last.path = "queueNotFound"
  /\ NamesNoQueue(last.options)
  /\ last.options.accountId # Undef
  /\ ~\E a \in externalAccounts : a.identifier = last.options.accountId

(***************************************************************************)
(* C14.  A createPipeline call that completes appends exactly one          *)
(* PipelineRun: status PENDING, nextStepIndex 0, its input event and its   *)
(* queue (QUEUE) or dispatcher (DISPATCHER) exist, metadata carries the    *)
(* id of that queue or dispatcher, steps are the ids of its pipeline       *)
(* steps in order, output is the payload of the input event; exactly one   *)
(* runPipeline{id} job is enqueued with it, and the createPipeline job     *)
(* that triggered the call is the one for this type, asset and event.  A   *)
(* call that fails (missing event, missing queue or dispatcher, aborted    *)
(* transaction) creates no run and enqueues nothing.  No operation changes *)
(* the steps list of an existing run.                                      *)
(***************************************************************************)
AssetOf(run) ==
  IF run.type = "DISPATCHER" THEN run.metadata.dispatcherId ELSE run.metadata.queueId

AssetExists(run) ==
  IF run.type = "DISPATCHER"
  THEN /\ run.metadata.queueId = Undef
       /\ \E d \in EventDispatchers : d.id = run.metadata.dispatcherId
  ELSE /\ run.metadata.dispatcherId = Undef
       /\ \E q \in Queues : q.id = run.metadata.queueId

StepIdsOf(run) ==
  IF run.type = "DISPATCHER"
  THEN [i \in 1..Cardinality({ k \in DOMAIN EventDispatcherPipelineSteps :
                                 EventDispatcherPipelineSteps[k].dispatcherId = AssetOf(run) })
          |-> (DispatcherPipeline(AssetOf(run))[i]).id]
  ELSE [i \in 1..Cardinality({ k \in DOMAIN QueuePipelineSteps :
                                 QueuePipelineSteps[k].queueId = AssetOf(run) })
          |-> (QueuePipeline(AssetOf(run))[i]).id]

CreatePipelineJobFor(run) ==
  [BlankJob EXCEPT !.name = "createPipeline", !.type = run.type,
                   !.assetId = AssetOf(run), !.eventRecordId = run.inputEventId]

CreatePipelineCreatesRun ==
  [][ /\ \A id \in DOMAIN pipelineRuns :
           /\ id \in DOMAIN pipelineRuns'
           /\ pipelineRuns'[id].steps = pipelineRuns[id].steps
      /\ last'.op = "createPipeline"
         => IF last'.threw
            THEN /\ pipelineRuns' = pipelineRuns
                 /\ jobs' = jobs
            ELSE LET run == pipelineRuns'[Len(pipelineRuns')] IN
                 /\ Len(pipelineRuns') = Len(pipelineRuns) + 1
                 /\ SubSeq(pipelineRuns', 1, Len(pipelineRuns)) = pipelineRuns
                 /\ run.id = Len(pipelineRuns')
                 /\ run.type \in {"QUEUE", "DISPATCHER"}
                 /\ run.status = "PENDING"
                 /\ run.nextStepIndex = 0
                 /\ run.inputEventId \in DOMAIN eventRecords
                 /\ AssetExists(run)
                 /\ run.steps = StepIdsOf(run)
                 /\ run.output = eventRecords[run.inputEventId].payload
                 /\ eventRecords' = eventRecords
                 /\ jobs' (+) (IF last'.fromJob THEN SetToBag({CreatePipelineJobFor(run)})
                               ELSE EmptyBag)
                      = jobs (+) SetToBag({RunJob(run.id)})
    ]_vars

TwoStepRunCreated ==
  /\ last.op = "createPipeline"
  /\ ~last.threw
  /\ last.fromJob
  /\ last.ret[1].type = "QUEUE"
  /\ last.ret[1].steps = <<"sB", "sC">>
  /\ pipelineRuns[last.ret[1].id] = last.ret[1]
  /\ CopiesIn(RunJob(last.ret[1].id), jobs) = 1

(***************************************************************************)
(* C11.  Whatever the interleaving of concurrent sends, there is at most   *)
(* one EventRecord per (eventId, environmentId).  A send that found no row *)
(* for its pair and reaches its write after another send has created the  *)
(* row fails, with the unique-constraint error when its queue exists, and  *)
(* changes no EventRecord; a send that found the row creates none and,     *)
(* when it completes, returns that row; a send that completes having       *)
(* found no row and met none has created the one row of its pair.          *)
(***************************************************************************)
OneRowPerEvent(rows) ==
  \A i, j \in DOMAIN rows :
     (rows[i].eventId = rows[j].eventId /\ rows[i].environmentId = rows[j].environmentId)
     => i = j

ConcurrentSendsKeepOneRow ==
  [][ /\ OneRowPerEvent(eventRecords')
      /\ \A p \in Senders :
           (last'.op = "send" /\ calls[p] # <<>> /\ calls'[p] = <<>>)
           => LET c == calls[p][1]
                  lost == c.found = <<>> /\ ExistingRow(c.event) # {}
              IN /\ lost => /\ last'.threw
                            /\ eventRecords' = eventRecords
                            /\ ~NamesNoQueue(c.options) => last'.path = "duplicateKey"
                 /\ c.found # <<>>
                    => /\ Len(eventRecords') = Len(eventRecords)
                       /\ ~last'.threw
                          => /\ last'.ret[1].id = c.found[1].id
                             /\ eventRecords'[c.found[1].id] = last'.ret[1]
                                  \/ last'.path = "unchanged"
                 /\ (c.found = <<>> /\ ~lost /\ ~last'.threw)
                    => /\ eventRecords' = Append(eventRecords, last'.ret[1])
                       /\ last'.ret[1].eventId = <<c.event.id>>
    ]_vars

RacingSendLostOnUniqueIndex ==
  /\ last.op = "send"
  /\ last.threw
  /\ ~last.abort
  /\ last.path = "duplicateKey"
  /\ Cardinality(ExistingRow(last.event)) = 1
  /\ Len(eventRecords) = 1

(***************************************************************************)
(* Vocabulary of the span properties.  The rows a step has written are the *)
(* rows of taskEvents' after the rows of taskEvents; a row is the data it  *)
(* was created from with the id and, where the data had none, the creation *)
(* time the table gave it.                                                 *)
(***************************************************************************)
NewRows == SubSeq(taskEvents', Len(taskEvents) + 1, Len(taskEvents'))

DataOf(row) == [row EXCEPT !.id = NoId]

RowDataOf(item, t) == [item EXCEPT !.id = NoId,
                                   !.createdAt = IF @ = NoTime THEN t ELSE @]

Count(seq, v) == Cardinality({ i \in DOMAIN seq : seq[i] = v })

Persists(op) == op \in {"insertImmediate", "insertManyImmediate", "flush",
                        "cancelEvent", "crashEvent"}

(* The storage write of the step failed. *)
StorageFailed(call) == IF call.op = "flush" THEN call.args[1] ELSE call.threw

(***************************************************************************)
(* C15.  When a batch is flushed (by insertManyImmediate or by the         *)
(* scheduler) and storage takes the write, the rows written are, each      *)
(* exactly once, the items of the batch that are non-partial, or partial   *)
(* with no non-partial item of the same spanId in the batch; a partial     *)
(* item that has such a non-partial item is written no row.                *)
(***************************************************************************)
FlushedBatch(call) == IF call.op = "flush" THEN call.args[2] ELSE call.args

SuppressedIn(items, i) ==
  /\ items[i].isPartial
  /\ \E j \in DOMAIN items : ~items[j].isPartial /\ items[j].spanId = items[i].spanId

FlushSuppressesPartials ==
  [][ (last'.op \in {"flush", "insertManyImmediate"} /\ ~StorageFailed(last'))
      => LET items == FlushedBatch(last')
             written == [i \in DOMAIN NewRows |-> DataOf(NewRows[i])]
             kept == { i \in DOMAIN items : ~SuppressedIn(items, i) }
         IN /\ Len(taskEvents') >= Len(taskEvents)
            /\ SubSeq(taskEvents', 1, Len(taskEvents)) = taskEvents
            /\ Len(written) = Cardinality(kept)
            /\ \A i \in DOMAIN items :
                  LET v == RowDataOf(items[i], now)
                  IN Count(written, v) =
                       Cardinality({ j \in kept : RowDataOf(items[j], now) = v })
    ]_vars

PartialSuppressedByCompleteInBatch ==
  /\ last.op = "flush"
  /\ ~StorageFailed(last)
  /\ last.args[2] = <<PartialX, CompleteX>>
  /\ Len(taskEvents) = 1
  /\ DataOf(taskEvents[1]) = RowDataOf(CompleteX, taskEvents[1].createdAt)
  /\ ~taskEvents[1].isPartial

(***************************************************************************)
(* C16.  A step that persists rows (insertImmediate, insertManyImmediate,  *)
(* a scheduled flush) starts, once storage has taken the write, one run of *)
(* the publisher whose ids are the channels events:{traceId}:{spanId} of   *)
(* the rows written, each distinct channel once, and publishes nothing     *)
(* itself; when it wrote no row, or storage failed, it starts no run.  A   *)
(* turn of the publisher publishes the first id its run has left, on that  *)
(* channel, and takes it off the run, so no id is published twice.  No     *)
(* other step starts a run or publishes.                                   *)
(***************************************************************************)
ChannelsOf(rows) == { Channel(rows[i]) : i \in DOMAIN rows }

PublishOncePerTraceSpan ==
  [][ /\ (Persists(last'.op) /\ ~StorageFailed(last'))
         => IF NewRows = <<>> THEN publishTasks' = publishTasks
            ELSE /\ Len(publishTasks') = Len(publishTasks) + 1
                 /\ SubSeq(publishTasks', 1, Len(publishTasks)) = publishTasks
                 /\ LET task == publishTasks'[Len(publishTasks')]
                    IN /\ task.origin = last'.op
                       /\ Range(task.ids) = ChannelsOf(NewRows)
                       /\ Len(task.ids) = Cardinality(ChannelsOf(NewRows))
      /\ (Persists(last'.op) /\ StorageFailed(last'))
         => /\ taskEvents' = taskEvents
            /\ publishTasks' = publishTasks
      /\ last'.op = "publish"
         => /\ taskEvents' = taskEvents
            /\ \E i \in DOMAIN publishTasks :
                  LET task == publishTasks[i]
                  IN /\ last'.args = <<task>>
                     /\ task.ids # <<>>
                     /\ ~last'.threw
                        => /\ Len(last'.ret) = 1
                           /\ last'.ret[1].channel = Head(task.ids)
                           /\ publishTasks' =
                                IF Len(task.ids) > 1
                                THEN [publishTasks EXCEPT ![i].ids = Tail(task.ids)]
                                ELSE Without(publishTasks, i)
                     /\ last'.threw => last'.ret = <<>>
      /\ (~Persists(last'.op) /\ last'.op # "publish")
         => publishTasks' = publishTasks
    ]_vars

TwoRowsOfOneSpanPublishedOnce ==
  /\ last.op = "publish"
  /\ ~last.threw
  /\ last.args[1].origin = "insertManyImmediate"
  /\ last.args[1].ids = <<"events:t1:Y">>
  /\ last.ret[1].channel = "events:t1:Y"
  /\ Len(taskEvents) = 2
  /\ ChannelsOf(taskEvents) = {"events:t1:Y"}
  /\ publishTasks = <<>>

(***************************************************************************)
(* C17.  A failure of storage or of the broker during an immediate path    *)
(* (insertImmediate, insertManyImmediate, cancelEvent, crashEvent) reaches *)
(* the caller as a failed call: an insertImmediate that returns normally   *)
(* has written its row, and a run of the publisher that an immediate path  *)
(* started and whose publish fails is awaited by the call, which receives  *)
(* the rejection.  A failure while flushing a scheduled batch reaches no   *)
(* caller.                                                                 *)
(***************************************************************************)
ImmediatePaths == {"insertImmediate", "insertManyImmediate", "cancelEvent", "crashEvent"}

ImmediateFailuresReachCaller ==
  [][ /\ (last'.op = "insertImmediate" /\ ~last'.threw)
         => Len(taskEvents') = Len(taskEvents) + 1
      /\ (last'.op = "publish" /\ last'.threw
          /\ last'.args[1].origin \in ImmediatePaths)
         => last'.args[1].awaited
      /\ last'.op = "flush" => ~last'.threw
    ]_vars

(***************************************************************************)
(* C18.  Span rows are append-only.  Every step other than truncateEvents  *)
(* leaves each existing row where and as it was and at most adds rows      *)
(* after them.  cancelEvent and crashEvent on a partial row add one row    *)
(* with the traceId and spanId of that row; completeEvent writes no row    *)
(* itself and hands the scheduler at most one non-partial item with the    *)
(* traceId and spanId of a partial row of the table.  truncateEvents adds  *)
(* and changes no row, and every row it removes was created before the     *)
(* retention period.                                                       *)
(***************************************************************************)
RetentionStart(t) == t - retentionInDays * 24 * 60 * 60 * 1000

SameSpan(a, b) == a.traceId = b.traceId /\ a.spanId = b.spanId

SpanRowsAppendOnly ==
  [][ /\ last'.op # "truncateEvents"
         => /\ Len(taskEvents') >= Len(taskEvents)
            /\ SubSeq(taskEvents', 1, Len(taskEvents)) = taskEvents
      /\ (last'.op \in {"cancelEvent", "crashEvent"} /\ ~last'.threw
          /\ last'.args[1].isPartial)
         => /\ Len(NewRows) = 1
            /\ SameSpan(NewRows[1], last'.args[1])
            /\ ~NewRows[1].isPartial
      /\ last'.op = "completeEvent"
         => /\ taskEvents' = taskEvents
            /\ \/ batch' = batch
               \/ /\ Len(batch') = Len(batch) + 1
                  /\ SubSeq(batch', 1, Len(batch)) = batch
                  /\ ~batch'[Len(batch')].isPartial
                  /\ \E i \in DOMAIN taskEvents :
                        /\ taskEvents[i].isPartial
                        /\ SameSpan(taskEvents[i], batch'[Len(batch')])
      /\ last'.op = "truncateEvents"
         => /\ \A i \in DOMAIN taskEvents' : taskEvents'[i] \in Range(taskEvents)
            /\ \A i \in DOMAIN taskEvents :
                  taskEvents[i] \in Range(taskEvents')
                  \/ taskEvents[i].createdAt < RetentionStart(now)
    ]_vars

TruncationKeptNewerRow ==
  /\ last.op = "truncateEvents"
  /\ Len(taskEvents) = 1
  /\ taskEvents[1].id = 2
  /\ taskEvents[1].createdAt = now
  /\ taskEventSeq = 2

(***************************************************************************)
(* C19.  cancelEvent(row, cancelledAt, reason) on a partial row, when      *)
(* storage takes the write, adds exactly one row: it has the traceId and   *)
(* spanId of the row, isPartial false, isCancelled true, the duration from *)
(* the row's startTime to cancelledAt (in nanoseconds), and as events the  *)
(* cancellation event {name "cancellation", time cancelledAt, properties   *)
(* {reason}} followed by the row's events in their order; one run of the   *)
(* publisher is started for the span.  On a non-partial row the call       *)
(* returns normally, writes nothing, buffers nothing and starts no run.    *)
(***************************************************************************)
CancelEventWritesCancelledRow ==
  [][ last'.op = "cancelEvent"
      => LET row == last'.args[1]
             cancelledAt == last'.args[2]
             reason == last'.args[3]
         IN /\ (row.isPartial /\ ~last'.threw)
               => /\ Len(NewRows) = 1
                  /\ taskEvents' = Append(taskEvents, NewRows[1])
                  /\ SameSpan(NewRows[1], row)
                  /\ ~NewRows[1].isPartial
                  /\ NewRows[1].isCancelled
                  /\ NewRows[1].duration =
                       cancelledAt * NanosecondsPerMillisecond - row.startTime
                  /\ NewRows[1].events =
                       <<[name |-> "cancellation", time |-> cancelledAt,
                          properties |-> [reason |-> reason]]>> \o row.events
                  /\ NewRows[1].id \notin { taskEvents[i].id : i \in DOMAIN taskEvents }
                  /\ publishTasks' =
                       Append(publishTasks, [origin |-> "cancelEvent", awaited |-> FALSE,
                                             ids |-> <<Channel(row)>>])
            /\ ~row.isPartial
               => /\ ~last'.threw
                  /\ taskEvents' = taskEvents
                  /\ batch' = batch
                  /\ publishTasks' = publishTasks
            /\ last'.threw => taskEvents' = taskEvents /\ publishTasks' = publishTasks
    ]_vars

CancelledRowAddedAfterPartial ==
  /\ last.op = "cancelEvent"
  /\ ~last.threw
  /\ last.args[1] = taskEvents[1]
  /\ DataOf(taskEvents[1]) = RowDataOf(PartialY, taskEvents[1].createdAt)
  /\ Len(taskEvents) = 2
  /\ taskEvents[2].isCancelled
  /\ taskEvents[2].events =
       <<[name |-> "cancellation", time |-> 1, properties |-> [reason |-> "user"]],
         LogSpanEvent>>
  /\ taskEvents[2].duration = 999900

(***************************************************************************)
(* C20.  Every row that queryIncompleteEvents(where) returns is a row of   *)
(* the table that is partial and not cancelled and has no completed        *)
(* (non-partial, not cancelled) row of its spanId among the rows that      *)
(* match where.                                                            *)
(***************************************************************************)
QueryReturnsOnlyIncompleteRows ==
  [][ last'.op = "queryIncompleteEvents"
      => \A i \in DOMAIN last'.ret :
            LET event == last'.ret[i]
            IN /\ event \in Range(taskEvents)
               /\ event.isPartial
               /\ ~event.isCancelled
               /\ ~\E j \in DOMAIN taskEvents :
                      /\ Where(last'.args[1], taskEvents[j])
                      /\ taskEvents[j].spanId = event.spanId
                      /\ ~taskEvents[j].isPartial
                      /\ ~taskEvents[j].isCancelled
    ]_vars

(***************************************************************************)
(* C30.  A run is SUCCESS, and an output EventRecord exists for it, only   *)
(* when every step of its steps list is a FILTER whose config parses and   *)
(* matches run.output: a run with a later step that run.output does not    *)
(* match is never SUCCESS and has no output EventRecord.                   *)
(***************************************************************************)
StepOf(run, k) == CHOOSE s \in Range(StepTable(run.type)) : s.id = run.steps[k]

EveryStepPasses(run) ==
  \A k \in DOMAIN run.steps :
     /\ StepOf(run, k).type = "FILTER"
     /\ EventFilterSchemaSafeParse(StepOf(run, k).config)
     /\ eventFilterMatches(run.output, StepOf(run, k).config)

SuccessOnlyAfterEveryStep ==
  \A id \in DOMAIN pipelineRuns :
     (\/ pipelineRuns[id].status = "SUCCESS"
      \/ \E i \in DOMAIN eventRecords : eventRecords[i].pipelineOutputRunId = id)
     => EveryStepPasses(pipelineRuns[id])

(***************************************************************************)
(* Vocabulary of the trace properties: the rows of a span in the table,    *)
(* its completion rows (non-partial, not cancelled), and the entries a     *)
(* summary has for it.                                                     *)
(***************************************************************************)
RowsOfSpan(traceId, spanId) ==
  { i \in DOMAIN taskEvents :
      taskEvents[i].traceId = traceId /\ taskEvents[i].spanId = spanId }

CompletionRows(traceId, spanId) ==
  { i \in RowsOfSpan(traceId, spanId) :
      ~taskEvents[i].isPartial /\ ~taskEvents[i].isCancelled }

CancelledRows(traceId, spanId) ==
  { i \in RowsOfSpan(traceId, spanId) : taskEvents[i].isCancelled }

EntriesOf(summary, spanId) ==
  { i \in DOMAIN summary.spans : summary.spans[i].id = spanId }

SummaryReturned(call) == call.op = "getTraceSummary" /\ call.ret # <<>>

TraceSpanIds == {"A", "B", "C"}

(***************************************************************************)
(* C21.  Once a partial span has been completed, by one completeEvent or   *)
(* by two, getTraceSummary has exactly one entry for the span; the entry   *)
(* is non-partial and is taken from a completion row of the span, the      *)
(* later one (the one written last) when there are two.                    *)
(***************************************************************************)
CompletedSpanReportedOnce ==
  [][ SummaryReturned(last')
      => \A spanId \in TraceSpanIds :
            (CompletionRows("T", spanId) # {} /\ CancelledRows("T", spanId) = {})
            => /\ Cardinality(EntriesOf(last'.ret[1], spanId)) = 1
               /\ \A e \in EntriesOf(last'.ret[1], spanId) :
                    LET entry == last'.ret[1].spans[e]
                    IN /\ ~entry.data.isPartial
                       /\ \E i \in CompletionRows("T", spanId) :
                             /\ taskEvents[i].id = entry.recordId
                             /\ \A j \in CompletionRows("T", spanId) :
                                   taskEvents[j].id <= taskEvents[i].id
    ]_vars

(***************************************************************************)
(* The stored row a summary entry was built from, and the entry of the     *)
(* nearest span, from spanId upwards, whose row is a cancelled one.        *)
(***************************************************************************)
RowOfEntry(entry) ==
  taskEvents[CHOOSE i \in DOMAIN taskEvents : taskEvents[i].id = entry.recordId]

RECURSIVE NearestCancelled(_, _)
NearestCancelled(summary, spanId) ==
  LET es == EntriesOf(summary, spanId)
  IN IF es = {} THEN {}
     ELSE LET entry == summary.spans[CHOOSE e \in es : TRUE]
          IN IF RowOfEntry(entry).isCancelled THEN {entry}
             ELSE IF entry.parentId = Undef THEN {}
             ELSE NearestCancelled(summary, entry.parentId)

CancellationTime(entry) ==
  LET cancellations == SelectSeq(RowOfEntry(entry).events,
                                 LAMBDA e : e.name = "cancellation")
  IN cancellations[1].time

Max(a, b) == IF a >= b THEN a ELSE b

(***************************************************************************)
(* C22.  In a summary, every span whose row is partial and that has a      *)
(* cancelled ancestor is reported cancelled, with the duration             *)
(* max(0, c - startTime), c being the time of the cancellation event of    *)
(* the nearest cancelled ancestor: the duration is never negative, also    *)
(* for a span that starts after c.                                         *)
(***************************************************************************)
CancelledAncestorDurationClamped ==
  [][ SummaryReturned(last')
      => \A e \in DOMAIN last'.ret[1].spans :
           LET entry == last'.ret[1].spans[e]
               row == RowOfEntry(entry)
           IN (row.isPartial /\ entry.parentId # Undef)
              => \A ancestor \in NearestCancelled(last'.ret[1], entry.parentId) :
                   /\ entry.data.isCancelled
                   /\ entry.data.duration >= 0
                   /\ entry.data.duration =
                        Max(0, CancellationTime(ancestor) * NanosecondsPerMillisecond
                               - row.startTime)
    ]_vars

AncestorCancelled(summary, entry) ==
  entry.parentId # Undef /\ NearestCancelled(summary, entry.parentId) # {}

(***************************************************************************)
(* C23.  For every span s of a summary, s being the row the entry is built *)
(* from: the reported isPartial is s.isPartial and no ancestor cancelled,  *)
(* the reported isCancelled is s.isCancelled or (s.isPartial and an        *)
(* ancestor cancelled); no reported span is both partial and cancelled; a  *)
(* completed descendant of a cancelled span keeps isCancelled = false and  *)
(* its stored duration.                                                    *)
(***************************************************************************)
CancellationPropagatesToPartialSpans ==
  [][ SummaryReturned(last')
      => \A e \in DOMAIN last'.ret[1].spans :
           LET entry == last'.ret[1].spans[e]
               row == RowOfEntry(entry)
               ancestorCancelled == AncestorCancelled(last'.ret[1], entry)
           IN /\ entry.data.isPartial = (row.isPartial /\ ~ancestorCancelled)
              /\ entry.data.isCancelled =
                   (row.isCancelled \/ (row.isPartial /\ ancestorCancelled))
              /\ ~(entry.data.isPartial /\ entry.data.isCancelled)
              /\ (~row.isPartial /\ ~row.isCancelled /\ ancestorCancelled)
                 => /\ ~entry.data.isCancelled
                    /\ entry.data.duration = row.duration
    ]_vars

(* A cancelled at 500 ms with B still partial: A is reported cancelled     *)
(* with 500 ms, B non-partial and cancelled with 500 - 100 = 400 ms.       *)
PartialChildOfCancelledRootReported ==
  /\ SummaryReturned(last)
  /\ \E a, b \in DOMAIN last.ret[1].spans :
       LET A == last.ret[1].spans[a]
           B == last.ret[1].spans[b]
       IN /\ A.id = "A" /\ B.id = "B"
          /\ RowOfEntry(A).isCancelled /\ RowOfEntry(B).isPartial
          /\ A.data.isCancelled /\ ~A.data.isPartial
          /\ A.data.duration = 500 * NanosecondsPerMillisecond
          /\ B.data.isCancelled /\ ~B.data.isPartial
          /\ B.data.duration = 400 * NanosecondsPerMillisecond

(***************************************************************************)
(* Vocabulary of recordEvent and traceEvent: the spans a step inserts, in  *)
(* the table or in the scheduler's batch, and the parent trace a context   *)
(* carries.                                                                *)
(***************************************************************************)
NewItems == SubSeq(batch', Len(batch) + 1, Len(batch'))

InsertedSpans == NewRows \o NewItems

ParentPresent(context) ==
  Len(context.traceparent) = 4 /\ context.traceparent[1] = "00"

(***************************************************************************)
(* C24.  A recordEvent that returns has inserted exactly one span; the     *)
(* span is non-partial and has duration 0; its traceId and parentId are    *)
(* those of the parent trace of opts.context when there is one, and        *)
(* otherwise its traceId is freshly generated and it has no parentId.      *)
(***************************************************************************)
RecordEventInsertsZeroDurationSpan ==
  [][ (last'.op = "recordEvent" /\ ~last'.threw)
      => LET options == last'.args[1]
             ids == last'.args[2]
         IN /\ Len(InsertedSpans) = 1
            /\ ~InsertedSpans[1].isPartial
            /\ InsertedSpans[1].duration = 0
            /\ IF ParentPresent(options.context)
               THEN /\ InsertedSpans[1].traceId = options.context.traceparent[2]
                    /\ InsertedSpans[1].parentId = options.context.traceparent[3]
               ELSE /\ InsertedSpans[1].traceId = ids.traceId
                    /\ InsertedSpans[1].parentId = Undef
    ]_vars

(***************************************************************************)
(* C25.  recordEvent and traceEvent called without attributes.runId fail   *)
(* before any other effect: the call throws, no row is written, nothing is *)
(* added to the batch, no publication is started, and traceEvent has not   *)
(* invoked its callback.                                                   *)
(***************************************************************************)
MissingRunIdFailsFirst ==
  [][ (/\ last'.op \in {"recordEvent", "traceEvent"}
       /\ last'.args[1].attributes.runId = Undef)
      => /\ last'.threw
         /\ UNCHANGED <<taskEvents, batch, publishTasks>>
         /\ last'.op = "traceEvent" => ~last'.invoked
    ]_vars

(***************************************************************************)
(* C26.  When the callback of traceEvent fails, the span is inserted all   *)
(* the same, one span of the call's traceId and spanId, and the failure    *)
(* reaches the caller; when the callback succeeds and traceEvent returns,  *)
(* exactly one span has been inserted and the result is the callback's.    *)
(***************************************************************************)
TraceEventPersistsSpanOnFailure ==
  [][ last'.op = "traceEvent"
      => LET callback == last'.args[3]
         IN /\ callback.throws
               => /\ last'.threw
                  /\ Len(InsertedSpans) = 1
            /\ (~callback.throws /\ ~last'.threw)
               => /\ Len(InsertedSpans) = 1
                  /\ last'.ret = <<callback.result>>
    ]_vars

(***************************************************************************)
(* C27.  Once the unsubscribe of a subscription has returned, its pattern  *)
(* is no longer registered, its connection is closed, and its emitter      *)
(* emits no further message.                                               *)
(***************************************************************************)
UnsubscribeClosesBeforeReturning ==
  [][ \A i \in DOMAIN subscriptions' :
        subscriptions'[i].unsubscribed
        => /\ ~subscriptions'[i].registered
           /\ subscriptions'[i].connection = "closed"
           /\ (i \in DOMAIN subscriptions /\ subscriptions[i].unsubscribed)
              => subscriptions'[i].emitted = subscriptions[i].emitted
    ]_vars

(***************************************************************************)
(* Vocabulary of the scheduler's properties: the items of the batches      *)
(* handed to the callback, one after the other; the items submitted; the   *)
(* scheduler at rest; N / B rounded up.                                    *)
(***************************************************************************)
RECURSIVE Concat(_)
Concat(batches) ==
  IF batches = <<>> THEN <<>> ELSE Head(batches) \o Concat(Tail(batches))

SubmittedItems == [i \in DOMAIN submitted |-> submitted[i].item]

AtRest == batch = <<>> /\ flushing = <<>>

SubmittedWithinOneInterval ==
  \A i \in DOMAIN submitted : submitted[i].at < submitted[1].at + flushInterval

CeilDiv(n, b) == (n + b - 1) \div b

OutputEventsOf(rows, id) ==
  { i \in DOMAIN rows : rows[i].pipelineOutputRunId = id }

FollowUpJobsOf(bag, rows, id) ==
  [j \in { k \in DOMAIN bag : /\ k.name \in FollowUpJobs
                              /\ k.eventRecordId \in OutputEventsOf(rows, id) }
     |-> bag[j]]

LosingInvocation(p) ==
  /\ last'.op = "runPipeline"
  /\ calls[p] # <<>>
  /\ calls'[p] = <<>>
  /\ ~Terminal(calls[p][1].run)
  /\ Terminal(pipelineRuns[calls[p][1].id])

JobNamesCommittedRow(job) ==
  IF job.name \in {"createPipeline", "deliverEvent", "events.invokeDispatcher"}
  THEN job.eventRecordId \in DOMAIN eventRecords'
  ELSE job.name = "runPipeline" => job.id \in DOMAIN pipelineRuns'

JobsCommitWithTransaction ==
  [][ /\ \A job \in DOMAIN jobs' : JobNamesCommittedRow(job)
      /\ (last'.op \in {"send", "createPipeline", "runPipeline"} /\ last'.threw)
         => NoJobEnqueued
    ]_vars

(***************************************************************************)
(* C33.  However many times an (eventId, environmentId) is sent, at most   *)
(* one QUEUE PipelineRun has the EventRecord as its input event, and at    *)
(* most one EventRecord is the output of a pipeline over it.               *)
(***************************************************************************)
QueueRunsOver(i) ==
  { r \in DOMAIN pipelineRuns :
      pipelineRuns[r].type = "QUEUE" /\ pipelineRuns[r].inputEventId = i }

OnePipelinePerEventRecord ==
  \A i \in DOMAIN eventRecords :
     /\ Cardinality(QueueRunsOver(i)) <= 1
     /\ Cardinality({ j \in DOMAIN eventRecords :
                        eventRecords[j].pipelineOutputRunId \in QueueRunsOver(i) }) <= 1

(***************************************************************************)
(* C34.  Cancellation is final: once the table holds a cancelled row of a  *)
(* span, queryIncompleteEvents returns no row of that span, a completeEvent*)
(* for that spanId inserts nothing, and every getTraceSummary has the span *)
(* with isCancelled true.                                                  *)
(***************************************************************************)
IncompleteQueries(spanId) == {QueryOptions("T", Undef), QueryOptions(Undef, spanId)}

CancellationIsFinal ==
  [][ \A spanId \in TraceSpanIds :
        CancelledRows("T", spanId) # {}
        => /\ \A q \in IncompleteQueries(spanId) :
                \A row \in Range(queryIncompleteEvents(taskEvents, q)) :
                   row.spanId # spanId
           /\ (last'.op = "completeEvent" /\ last'.args[1] = spanId)
              => (batch' = batch /\ taskEvents' = taskEvents)
           /\ SummaryReturned(last')
              => \A e \in EntriesOf(last'.ret[1], spanId) :
                    last'.ret[1].spans[e].data.isCancelled
    ]_vars

(***************************************************************************)
(* C35.  completeEvent(spanId, options) does nothing when the span has no  *)
(* incomplete row (a partial row that is not cancelled, of a span without  *)
(* a completed row).  Otherwise it inserts exactly one new row for the     *)
(* span: isPartial false, isCancelled false, duration the time from the    *)
(* partial row's startTime to endTime, and traceId, parentId, message,     *)
(* properties, payload, events and links those of the partial row.         *)
(***************************************************************************)
IncompleteRows(spanId) ==
  { i \in DOMAIN taskEvents :
      /\ taskEvents[i].spanId = spanId
      /\ taskEvents[i].isPartial
      /\ ~taskEvents[i].isCancelled
      /\ ~\E j \in DOMAIN taskEvents :
            /\ taskEvents[j].spanId = spanId
            /\ ~taskEvents[j].isPartial
            /\ ~taskEvents[j].isCancelled }

CompletionOf(row, item, options, t) ==
  /\ ~item.isPartial
  /\ ~item.isCancelled
  /\ item.duration = calculateDurationFromStart(row.startTime, options.endTime, t)
  /\ [item EXCEPT !.id = NoId, !.isPartial = TRUE, !.isError = FALSE,
                  !.status = "", !.duration = 0, !.output = Undef,
                  !.outputType = Undef]
       = [row EXCEPT !.id = NoId, !.isPartial = TRUE, !.isError = FALSE,
                     !.status = "", !.duration = 0, !.output = Undef,
                     !.outputType = Undef]

CompleteEventCopiesPartialRow ==
  [][ last'.op = "completeEvent"
      => LET spanId == last'.args[1]
             options == last'.args[2]
         IN /\ taskEvents' = taskEvents
            /\ IF IncompleteRows(spanId) = {}
               THEN batch' = batch
               ELSE /\ Len(batch') = Len(batch) + 1
                    /\ SubSeq(batch', 1, Len(batch)) = batch
                    /\ \E i \in IncompleteRows(spanId) :
                          CompletionOf(taskEvents[i], batch'[Len(batch')], options, now)
    ]_vars

(***************************************************************************)
(* C36.  getTraceSummary has exactly one entry for each spanId of the      *)
(* trace.  For a span with a completed row (non-partial or cancelled) the  *)
(* entry is built from a completed row, wherever the partial row stands;   *)
(* among the rows that are equally eligible (the completed rows, or the    *)
(* partial rows of a span without a completed row) it is the one written   *)
(* last.                                                                   *)
(***************************************************************************)
CompletedRows(traceId, spanId) ==
  { i \in RowsOfSpan(traceId, spanId) :
      ~taskEvents[i].isPartial \/ taskEvents[i].isCancelled }

EligibleRows(traceId, spanId) ==
  IF CompletedRows(traceId, spanId) # {} THEN CompletedRows(traceId, spanId)
  ELSE RowsOfSpan(traceId, spanId)

SpanIdsOfTrace(traceId) ==
  { taskEvents[i].spanId : i \in { j \in DOMAIN taskEvents : taskEvents[j].traceId = traceId } }

SummaryReportsLastCompletedRow ==
  [][ SummaryReturned(last')
      => LET summary == last'.ret[1]
             traceId == last'.args[1]
         IN /\ { summary.spans[e].id : e \in DOMAIN summary.spans } = SpanIdsOfTrace(traceId)
            /\ \A spanId \in SpanIdsOfTrace(traceId) :
                  /\ Cardinality(EntriesOf(summary, spanId)) = 1
                  /\ \A e \in EntriesOf(summary, spanId) :
                       \E i \in EligibleRows(traceId, spanId) :
                          /\ taskEvents[i].id = summary.spans[e].recordId
                          /\ \A j \in EligibleRows(traceId, spanId) :
                                taskEvents[j].id <= taskEvents[i].id
    ]_vars

(***************************************************************************)
(* C37.  getTraceSummary returns for every set of rows of a trace, also    *)
(* when a parentId names a missing span, a span is its own parent or the   *)
(* parent links form a cycle; the ancestor walk made for a span visits at  *)
(* most as many spans as the trace has.                                    *)
(***************************************************************************)
AncestorWalkBounded ==
  [][ last'.op = "getTraceSummary"
      => /\ ~last'.threw
         /\ last'.walk <= last'.spans
    ]_vars

(***************************************************************************)
(* C38.  A getTraceSummary that returns gives nothing when no row of the   *)
(* trace lacks a parentId.  Otherwise it gives a summary whose rootSpan is *)
(* one of its spans: the entry of a span that has a row without parentId,  *)
(* built from the row deduplication keeps for that span, with the          *)
(* cancellation flags derived for it.                                      *)
(***************************************************************************)
RootRows(traceId) ==
  { i \in DOMAIN taskEvents :
      taskEvents[i].traceId = traceId /\ taskEvents[i].parentId = Undef }

RootSpanIsEntryOfParentlessSpan ==
  [][ (last'.op = "getTraceSummary" /\ ~last'.threw)
      => LET traceId == last'.args[1] IN
         IF RootRows(traceId) = {} THEN last'.ret = <<>>
         ELSE /\ last'.ret # <<>>
              /\ LET summary == last'.ret[1]
                     rootSpan == summary.rootSpan
                 IN /\ \E e \in DOMAIN summary.spans : summary.spans[e] = rootSpan
                    /\ \E i \in RootRows(traceId) : taskEvents[i].spanId = rootSpan.id
                    /\ \E i \in EligibleRows(traceId, rootSpan.id) :
                          /\ taskEvents[i].id = rootSpan.recordId
                          /\ rootSpan.data.isCancelled = taskEvents[i].isCancelled
                          /\ rootSpan.data.isPartial
                               = (taskEvents[i].isPartial /\ ~taskEvents[i].isCancelled)
    ]_vars

(* The root R starts after its child P and has been cancelled: the summary *)
(* has R as rootSpan, from the cancelled row.                              *)
LateCancelledRootReported ==
  /\ last.op = "getTraceSummary"
  /\ ~last.threw
  /\ last.ret # <<>>
  /\ last.ret[1].rootSpan.id = "R"
  /\ last.ret[1].rootSpan.data.isCancelled
  /\ last.ret[1].spans[1].id = "P"
  /\ Cardinality(RowsOfSpan("W", "R")) = 2

(***************************************************************************)
(* C39.  subscriberCount is the number of subscriptions that were opened   *)
(* and have not been unsubscribed, and it is never negative: also when     *)
(* unsubscribe is called more than once on a subscription and when the     *)
(* opening of a subscription fails.                                        *)
(***************************************************************************)
LiveSubscriptions ==
  { i \in DOMAIN subscriptions :
      subscriptions[i].handle /\ ~subscriptions[i].unsubscribed }

SubscriberCountIsLiveSubscriptions ==
  /\ subscriberCount >= 0
  /\ subscriberCount = Cardinality(LiveSubscriptions)

(***************************************************************************)
(* C40.  RunDispatcherPipeline.call(dispatcherId, eventRecordId) enqueues  *)
(* exactly one events.invokeDispatcher job for the dispatcher and the      *)
(* event when every step of the dispatcher's pipeline is a FILTER with a   *)
(* valid config that matches the event, and only then.  It stops at the    *)
(* first step that does not match, is invalid or has another type: no      *)
(* later step is evaluated, nothing is enqueued, no row changes.  A        *)
(* missing dispatcher or event fails the call with nothing enqueued.       *)
(***************************************************************************)
StepSucceeds(step, eventRecord) ==
  /\ step.type = "FILTER"
  /\ EventFilterSchemaSafeParse(step.config)
  /\ eventFilterMatches(eventRecord.payload, step.config)

FailingSteps(pipeline, eventRecord) ==
  { k \in DOMAIN pipeline : ~StepSucceeds(pipeline[k], eventRecord) }

InvokeDispatcherJob(dispatcherId, eventRecordId) ==
  [BlankJob EXCEPT !.name = "events.invokeDispatcher", !.assetId = dispatcherId,
                   !.eventRecordId = eventRecordId]

DispatcherPipelineGatesInvoke ==
  [][ last'.op = "runDispatcherPipeline"
      => LET dispatcherId == last'.dispatcherId
             eventRecordId == last'.eventRecordId
             missing == \/ \A d \in EventDispatchers : d.id # dispatcherId
                        \/ eventRecordId \notin DOMAIN eventRecords
         IN /\ eventRecords' = eventRecords
            /\ pipelineRuns' = pipelineRuns
            /\ externalAccounts' = externalAccounts
            /\ missing => (last'.threw /\ jobs' = jobs)
            /\ last'.threw => jobs' = jobs
            /\ (~missing /\ ~last'.threw)
               => LET pipeline == DispatcherPipeline(dispatcherId)
                      failing == FailingSteps(pipeline, eventRecords[eventRecordId])
                  IN IF failing = {}
                     THEN /\ jobs' = jobs (+) SetToBag({InvokeDispatcherJob(dispatcherId,
                                                                           eventRecordId)})
                          /\ last'.ret = <<Len(pipeline)>>
                     ELSE /\ jobs' = jobs
                          /\ \E k \in failing :
                                /\ \A j \in failing : k <= j
                                /\ last'.ret = <<k>>
    ]_vars

(* The first of two steps does not match: the second, which would match,   *)
(* is not evaluated and nothing is enqueued.                               *)
FirstStepMismatchStopsPipeline ==
  /\ last.op = "runDispatcherPipeline"
  /\ ~last.threw
  /\ last.dispatcherId = "d4"
  /\ last.path = "filtered"
  /\ last.ret = <<1>>
  /\ JobCount(jobs, {"events.invokeDispatcher"}) = 0
====
